---- MODULE Spec2Model ----
(***************************************************************************)
(* A model of the trading simulator in src/app.py: the price-resolution    *)
(* layer (get_price, get_price_change), the ledger (execute_buy, sell,     *)
(* sell_all)                                                               *)
(* the simulation clock (next_time, _jump_forward, skip_weekend, jump)     *)
(* and the history aggregation of the index page                           *)
(* (_aggregate_monthly_history).                                           *)
(*                                                                         *)
(* Representation of numbers.  The code computes with decimal.Decimal and  *)
(* stores floats in the session.  Here a decimal is an integer count of a  *)
(* step finer than the one the code quantizes to, so that quantization is  *)
(* an operation of the model and not a property of the representation:     *)
(*   shares, and the form's share input:  units of 0.00001 (SHARE_STEP is  *)
(*       10 of them)                                                       *)
(*   cash, totals, prices, avg_cost, the form's cash input: units of 0.001 *)
(*       dollars, "mills" (CASH_STEP is 10 of them; the price series       *)
(*       carries three fractional digits)                                  *)
(* A product shares x price counts 10^-8 dollars and does not fit TLC's    *)
(* 32-bit integers: it is computed as a pair [q, r], q mills and r units   *)
(* of 10^-8 with 0 <= r < 10^5 (MulDivMod).  float(d) followed by          *)
(* Decimal(str(f)) returns d for every decimal of at most 15 significant   *)
(* digits, which covers every amount the model reaches, and Decimal's 28   *)
(* digit quotient is far finer than the distance of any quotient of the    *)
(* model to the next multiple of a step, so truncating it equals           *)
(* truncating the exact quotient.  The float product of                    *)
(* _update_portfolio_value is modelled by the exact product.               *)
(*                                                                         *)
(* Dates are proleptic Gregorian ordinals (datetime.toordinal); the        *)
(* session's 'YYYY-MM-DD' strings denote exactly the valid dates.          *)
(***************************************************************************)
EXTENDS Integers, Sequences, FiniteSets, TLC

VARIABLES current_date, time_of_day, cash, holdings, transactions,
          portfolio_history, buy_error, jump_error, pinned_stocks, last, ops,
          quote, monthly_history, chart

vars == <<current_date, time_of_day, cash, holdings, transactions,
          portfolio_history, buy_error, jump_error, pinned_stocks, last, ops,
          quote, monthly_history, chart>>

----------------------------------------------------------------------------
(* Bounds of the model *)

\* number of operations (requests) in one run
MaxOps == 3

\* number of operations in one run of the buy, buy, sell-all scenario
ScenarioOps == 7

\* the number of requests in a run of clock requests
ClockOps == 4

\* the number of trade and clock requests in a run that renders the chart
ChartOps == 3

\* requests in a run of every kind of request
FrameOps == 3

\* the largest number of days or months of one advance
MaxUnits == 2

\* the largest number of years of one advance
MaxYears == 1

\* the passes of the gap-filling walk of the index page that are followed
MaxWalk == 6

\* the price lookups range over the dates at most Margin days from a date
\* where a series starts, stops or has a gap
Margin == 12

----------------------------------------------------------------------------
(* Program constants *)

\* SHARE_STEP = Decimal('0.0001'), in units of 0.00001 share
SHARE_STEP == 10
\* CASH_STEP = Decimal('0.01'), in mills
CASH_STEP == 10
\* session['cash'] = 10000.0, in mills
INITIAL_CASH == 10000000
\* max_attempts = 10 in get_price
MAX_ATTEMPTS == 10
\* days_before_cache > 30 in get_price
MAX_DAYS_BEFORE_CACHE == 30
\* while attempts < 10 in get_price_change
MAX_PREVIOUS_ATTEMPTS == 10

\* Python's None, and a present value x, as sequences of length 0 and 1
None == << >>
Some(x) == <<x>>

----------------------------------------------------------------------------
(* Decimal arithmetic *)

\* Decimal.quantize(step, rounding=ROUND_DOWN): toward zero
QuantizeDown(x, step) ==
    IF x >= 0 THEN (x \div step) * step ELSE -(((-x) \div step) * step)

\* a share quantity rounded to the nearest step, halves up
round_to_nearest(amount) ==
    ((amount + SHARE_STEP \div 2) \div SHARE_STEP) * SHARE_STEP

\* _quantize_shares(amount)
quantize_shares(amount) == QuantizeDown(amount, SHARE_STEP)

\* cash kept to the mill, not truncated to the cent
untruncated_cash(amount) == amount

\* _quantize_cash(amount)
quantize_cash(amount) == QuantizeDown(amount, CASH_STEP)

\* a * b as [q, r] with a * b = q * m + r and 0 <= r < m, for a, b >= 0; the
\* product itself may exceed 32 bits, so it is accumulated along the decimal
\* digits of b
RECURSIVE MulDivMod(_, _, _)
MulDivMod(a, b, m) ==
    IF b = 0 THEN [q |-> 0, r |-> 0]
    ELSE LET h == MulDivMod(a, b \div 10, m)
             t == 10 * h.r + a * (b % 10)
         IN [q |-> 10 * h.q + t \div m, r |-> t % m]

\* (hi * 10^k + lo) divided by d as [q, r], for 0 <= lo < 10^k: long division
RECURSIVE DivDigits(_, _, _, _)
DivDigits(hi, lo, k, d) ==
    IF k = 0 THEN [q |-> hi \div d, r |-> hi % d]
    ELSE LET h == DivDigits(hi, lo \div 10, k - 1, d)
             t == 10 * h.r + (lo % 10)
         IN [q |-> 10 * h.q + t \div d, r |-> t % d]

\* a trade charged the price of one share whatever its quantity
price_of_one_share(shares, price) == [q |-> price, r |-> 0]

\* shares * price for shares in 10^-5 and price in mills: [q mills, r 10^-8]
Times(shares, price) == MulDivMod(shares, price, 100000)

\* cash_value / price_decimal, in share units, truncated at 10^-5
\* (mills / mills) * 10^5
SharesFor(cash_value, price) == DivDigits(cash_value, 0, 5, price).q

\* the total cost itself, not divided by the shares
undivided_cost(total_cost, new_shares) == total_cost.q

\* total_cost / new_shares in mills, truncated at mills, for a total_cost
\* of [q mills, r 10^-8]: (q * 10^5 + r) / new_shares
CostPerShare(total_cost, new_shares) ==
    DivDigits(total_cost.q, total_cost.r, 5, new_shares).q

----------------------------------------------------------------------------
(* Calendar: datetime's proleptic Gregorian arithmetic *)

IsLeap(y) == (y % 4 = 0) /\ ((y % 100 # 0) \/ (y % 400 = 0))

\* calendar.monthrange(year, month)[1]
DaysInMonth(y, m) ==
    IF m = 2 THEN (IF IsLeap(y) THEN 29 ELSE 28)
    ELSE IF m \in {4, 6, 9, 11} THEN 30 ELSE 31

DaysBeforeYear(y) ==
    LET p == y - 1 IN p * 365 + p \div 4 - p \div 100 + p \div 400

\* days of a common year before each month
DAYS_BEFORE_MONTH == <<0, 31, 59, 90, 120, 151, 181, 212, 243, 273, 304, 334>>

DaysBeforeMonth(y, m) ==
    DAYS_BEFORE_MONTH[m] + (IF m > 2 /\ IsLeap(y) THEN 1 ELSE 0)

\* datetime(year, month, day) raises ValueError unless this holds
ValidDate(y, m, d) ==
    /\ y \in 1..9999
    /\ m \in 1..12
    /\ d \in 1..DaysInMonth(y, m)

ToOrdinal(y, m, d) == DaysBeforeYear(y) + DaysBeforeMonth(y, m) + d

YearOf(n) ==
    LET n0   == n - 1
        n400 == n0 \div 146097
        r400 == n0 % 146097
        n100 == r400 \div 36524
        r100 == r400 % 36524
        n4   == r100 \div 1461
        r4   == r100 % 1461
        n1   == r4 \div 365
        y    == n400 * 400 + n100 * 100 + n4 * 4 + n1 + 1
    IN IF n1 = 4 \/ n100 = 4 THEN y - 1 ELSE y

\* the month holding day number doy (1 is January 1st) of year y: the
\* estimate of datetime's _ord2ymd, lowered by one when it overshoots
MonthOfYearDay(y, doy) ==
    LET month == (doy + 49) \div 32
    IN IF DaysBeforeMonth(y, month) >= doy THEN month - 1 ELSE month

MonthOf(n) == LET y == YearOf(n) IN MonthOfYearDay(y, n - DaysBeforeYear(y))

DayOf(n) ==
    LET y == YearOf(n)
        doy == n - DaysBeforeYear(y)
    IN doy - DaysBeforeMonth(y, MonthOfYearDay(y, doy))

\* datetime.weekday(): Monday is 0
Weekday(n) == (n + 6) % 7

\* _add_months(date_obj, months)
add_months(n, months) ==
    LET y0    == YearOf(n)
        doy   == n - DaysBeforeYear(y0)
        m0    == MonthOfYearDay(y0, doy)
        d0    == doy - DaysBeforeMonth(y0, m0)
        month_index == m0 - 1 + months
        year  == y0 + month_index \div 12
        month == (month_index % 12) + 1
        dim   == DaysInMonth(year, month)
        day   == IF d0 < dim THEN d0 ELSE dim
    IN ToOrdinal(year, month, day)

----------------------------------------------------------------------------
(* The market data catalog (market_data.catalog), as StockMarket caches it. *)
(* The series are data of the collaborator: an equity whose sessions are   *)
(* the weekdays of the first half of 2000 except one holiday, and a        *)
(* crypto-asset with a session every day from its invention date to the    *)
(* end of the load window.                                                 *)

EQUITY == "XYZ"
CRYPTO == "BTC-USD"
Symbols == {EQUITY, CRYPTO}

\* a second crypto-asset, whose series has gaps and a session priced 0.0;
\* it is looked up but not traded
ETHER == "ETH-USD"

\* CRYPTOCURRENCIES (its keys)
CRYPTOCURRENCIES == {CRYPTO, ETHER}

\* session['current_date'] = '2000-01-03'
START_DATE == ToOrdinal(2000, 1, 3)

\* BITCOIN_INVENTION_DATE = datetime(2009, 1, 3)
BITCOIN_INVENTION_DATE == ToOrdinal(2009, 1, 3)

\* load_stock_data(symbol, start_date='2000-01-03', end_date='2025-10-31')
LOAD_END_DATE == ToOrdinal(2025, 10, 31)

\* ETHEREUM_INVENTION_DATE = datetime(2015, 7, 30)
ETHEREUM_INVENTION_DATE == ToOrdinal(2015, 7, 30)

\* StockMarket.cache: the symbols whose series load_stock_data has loaded
cache == Symbols \cup {ETHER}

\* the sessions of the second crypto-asset: its invention date, 2015-08-07
\* and 08, then every day from 2015-08-20 to 2015-09-30
ETHER_SESSIONS ==
    {ETHEREUM_INVENTION_DATE, ToOrdinal(2015, 8, 7), ToOrdinal(2015, 8, 8)}
        \cup (ToOrdinal(2015, 8, 20)..ToOrdinal(2015, 9, 30))

\* hist.index.min()
FirstSession(symbol) ==
    IF symbol = CRYPTO THEN BITCOIN_INVENTION_DATE
    ELSE IF symbol = ETHER THEN ETHEREUM_INVENTION_DATE
    ELSE START_DATE

\* the equity's series stops in mid-2000
EQUITY_LAST_SESSION == ToOrdinal(2000, 6, 30)

LastSession(symbol) ==
    IF symbol = CRYPTO THEN LOAD_END_DATE
    ELSE IF symbol = ETHER THEN ToOrdinal(2015, 9, 30)
    ELSE EQUITY_LAST_SESSION

\* a weekday without a session
Holidays == {ToOrdinal(2000, 1, 17)}

\* hist[hist.index.strftime('%Y-%m-%d') == date_str] is not empty
HasSession(symbol, date) ==
    /\ FirstSession(symbol) <= date
    /\ date <= LastSession(symbol)
    /\ \/ symbol = CRYPTO
       \/ symbol = ETHER /\ date \in ETHER_SESSIONS
       \/ symbol = EQUITY /\ Weekday(date) < 5 /\ date \notin Holidays

\* day_data['Open'], in mills: 150.000, 160.000, 170.000, 180.000, ... for
\* the equity on successive days; 5.275 for the crypto-asset; 0.0 on the
\* first day of the second crypto-asset and 0.680, 0.685, ... afterwards
OpenPrice(symbol, date) ==
    IF symbol = CRYPTO THEN 5275
    ELSE IF symbol = ETHER
         THEN (IF date = ETHEREUM_INVENTION_DATE THEN 0 ELSE 680 + 5 * (date % 9))
    ELSE 150000 + 10000 * ((date - START_DATE) % 4)

\* day_data['Close'], in mills: the early crypto series has Close = Open
ClosePrice(symbol, date) ==
    IF symbol = CRYPTO THEN 5275
    ELSE IF symbol = ETHER
         THEN (IF date = ETHEREUM_INVENTION_DATE THEN 0 ELSE OpenPrice(symbol, date) + 15)
    ELSE OpenPrice(symbol, date) + 2125

\* StockMarket.get_ipo_date: catalog.get_first_available_date, None if unknown
get_ipo_date(symbol) ==
    IF symbol = CRYPTO THEN Some(BITCOIN_INVENTION_DATE)
    ELSE IF symbol = ETHER THEN Some(ETHEREUM_INVENTION_DATE)
    ELSE None

\* StockMarket.get_market_cap: catalog.get_latest_market_cap in mills (the
\* equity 9000.00), None if unknown
get_market_cap(symbol) ==
    IF symbol = EQUITY THEN Some(9000000) ELSE None

----------------------------------------------------------------------------
(* StockMarket.get_price *)

\* a probing that goes backward for every symbol
always_backward(symbol) == FALSE

\* search_forward = symbol in CRYPTOCURRENCIES
search_forward(symbol) == symbol \in CRYPTOCURRENCIES

\* the while loop of get_price: the date of the session found, or None
RECURSIVE Probe(_, _, _)
Probe(symbol, date_obj, attempts) ==
    IF HasSession(symbol, date_obj) THEN Some(date_obj)
    ELSE IF attempts + 1 >= MAX_ATTEMPTS THEN None
    ELSE IF search_forward(symbol)
         THEN Probe(symbol, date_obj + 1, attempts + 1)
         ELSE Probe(symbol, date_obj - 1, attempts + 1)

\* a lookup that ignores the first-trade date
ipo_ignored(date_obj, ipo_date) == FALSE

\* date_obj < ipo_date
before_ipo(date_obj, ipo_date) == date_obj < ipo_date

\* days_before_cache = (first_cache_date - date_obj).days;
\* days_before_cache > 30
way_before_cache(date_obj, first_cache_date) ==
    first_cache_date - date_obj > MAX_DAYS_BEFORE_CACHE

get_price(symbol, date, tod) ==
    IF symbol \notin cache THEN None
    ELSE LET ipo_date == get_ipo_date(symbol)
         IN IF ipo_date # None /\ before_ipo(date, ipo_date[1]) THEN None
            ELSE IF ipo_date = None
                    /\ way_before_cache(date, FirstSession(symbol)) THEN None
            ELSE LET day == Probe(symbol, date, 0)
                 IN IF day = None THEN None
                    ELSE IF tod = "open" THEN Some(OpenPrice(symbol, day[1]))
                    ELSE Some(ClosePrice(symbol, day[1]))

----------------------------------------------------------------------------
(* StockMarket.get_price_change *)

\* the pair a lookup of the price change returns: both None, or the change
\* in mills and the percentage as the fraction num/den
NoChange == [change |-> None, percent |-> None]
Change(delta, num, den) ==
    [change |-> Some(delta), percent |-> Some([num |-> num, den |-> den])]

\* the while loop of get_price_change: the date of the previous session
\* found, or None
RECURSIVE PreviousSession(_, _, _)
PreviousSession(symbol, prev_date, attempts) ==
    IF ~(attempts < MAX_PREVIOUS_ATTEMPTS) THEN None
    ELSE IF HasSession(symbol, prev_date) THEN Some(prev_date)
    ELSE PreviousSession(symbol, prev_date - 1, attempts + 1)

\* a lookup of the change that takes a price of zero for a price
only_missing_price(current_price) == current_price = None

\* current_price is None or current_price == 0
no_current_price(current_price) ==
    current_price = None \/ current_price[1] = 0

get_price_change(symbol, date, tod) ==
    IF symbol \notin cache THEN NoChange
    ELSE LET current_price == get_price(symbol, date, tod)
         IN IF no_current_price(current_price) THEN NoChange
            ELSE LET prev == PreviousSession(symbol, date - 1, 0)
                 IN IF prev = None THEN Change(0, 0, 1)
                    ELSE LET prev_price == ClosePrice(symbol, prev[1])
                             change == current_price[1] - prev_price
                         IN IF prev_price = 0 THEN Change(0, 0, 1)
                            ELSE Change(change, change * 100, prev_price)

----------------------------------------------------------------------------
(* The Flask session, as a record; each handler maps a session to the      *)
(* session it leaves.                                                      *)

NoError == "none"

Session ==
    [current_date |-> current_date, time_of_day |-> time_of_day, cash |-> cash,
     holdings |-> holdings, transactions |-> transactions,
     portfolio_history |-> portfolio_history,
     buy_error |-> buy_error, jump_error |-> jump_error,
     pinned_stocks |-> pinned_stocks]

\* index(): the first request initialises the session
InitialSession ==
    [current_date |-> START_DATE, time_of_day |-> "open", cash |-> INITIAL_CASH,
     holdings |-> << >>, transactions |-> << >>,
     portfolio_history |->
         << [date |-> START_DATE, time |-> "unset",
             value |-> [q |-> INITIAL_CASH, r |-> 0]] >>,
     buy_error |-> NoError, jump_error |-> NoError, pinned_stocks |-> << >>]

\* index(): every handler redirects to index, which shows the errors and
\* pops them, so the next handler starts without any
Cleared(s) == [s EXCEPT !.buy_error = NoError, !.jump_error = NoError]

\* total_value += holding['shares'] * price, on [q mills, r 10^-8] pairs
AddValue(v, w) ==
    [q |-> v.q + w.q + (v.r + w.r) \div 100000, r |-> (v.r + w.r) % 100000]

\* the loop of _update_portfolio_value over holdings.items()
RECURSIVE SumPositions(_, _, _, _)
SumPositions(hs, todo, date, tod) ==
    IF todo = {} THEN [q |-> 0, r |-> 0]
    ELSE LET symbol == CHOOSE x \in todo : TRUE
             rest   == SumPositions(hs, todo \ {symbol}, date, tod)
             price  == get_price(symbol, date, tod)
         IN IF hs[symbol].shares > 0 /\ price # None
            THEN AddValue(rest, Times(hs[symbol].shares, price[1]))
            ELSE rest

\* a session whose history is left as it is
no_snapshot(s) == s

\* _update_portfolio_value(session)
update_portfolio_value(s) ==
    LET total_value ==
            AddValue([q |-> s.cash, r |-> 0],
                     SumPositions(s.holdings, DOMAIN s.holdings,
                                  s.current_date, s.time_of_day))
    IN [s EXCEPT !.portfolio_history =
            Append(@, [date |-> s.current_date, time |-> s.time_of_day,
                       value |-> total_value])]

\* a quantity handed on without the check that it is positive
unchecked_quantity(form, price_decimal) ==
    IF form.shares # None THEN Some(quantize_shares(form.shares[1]))
    ELSE IF form.cash # None /\ price_decimal > 0
    THEN Some(quantize_shares(SharesFor(form.cash[1], price_decimal)))
    ELSE None

\* _parse_shares_from_form(form, price_decimal): form.shares and form.cash
\* are the parsed fields, None when absent or not a decimal
parse_shares_from_form(form, price_decimal) ==
    LET raw == IF form.shares # None THEN form.shares
               ELSE IF form.cash # None /\ price_decimal > 0
                    THEN Some(SharesFor(form.cash[1], price_decimal))
               ELSE None
    IN IF raw = None THEN None
       ELSE IF quantize_shares(raw[1]) <= 0 THEN None
       ELSE Some(quantize_shares(raw[1]))

\* holdings with symbol bound to holding
WithHolding(hs, symbol, holding) ==
    [x \in DOMAIN hs \cup {symbol} |-> IF x = symbol THEN holding ELSE hs[x]]

\* a ledger that keeps a sold-out position as an entry of zero shares
keep_sold_out_holding(hs, symbol) ==
    WithHolding(hs, symbol, [shares |-> 0, avg_cost |-> 0])

\* del holdings[symbol]
WithoutHolding(hs, symbol) == [x \in DOMAIN hs \ {symbol} |-> hs[x]]

\* current_date_obj.weekday() >= 5
IsWeekend(date) == Weekday(date) >= 5

\* a weekend that closes the market of every symbol, crypto included
closed_for_every_symbol(date, symbol) == IsWeekend(date)

\* current_date_obj.weekday() >= 5 and symbol not in CRYPTOCURRENCIES
market_closed(date, symbol) == IsWeekend(date) /\ symbol \notin CRYPTOCURRENCIES

\* a buy that never looks at the cash balance
funds_never_checked(cash_balance, cost) == FALSE

\* cash_balance < cost
insufficient_funds(cash_balance, cost) == cash_balance < cost

----------------------------------------------------------------------------
(* The ledger *)

\* a sale that never checks the shares held
shares_never_checked(available_shares, shares) == FALSE

\* available_shares < shares: "Insufficient shares"
insufficient_shares(available_shares, shares) == available_shares < shares

\* a cap that only a larger position value breaks
cap_may_be_met(position_value, cap_decimal) == position_value.q > cap_decimal

\* position_value >= cap_decimal, for a position value [q mills, r] and a
\* cap in mills
cap_reached(position_value, cap_decimal) == position_value.q >= cap_decimal

\* execute_buy(): POST /buy/execute with form fields symbol, shares, cash
execute_buy(s, symbol, form) ==
    LET price == get_price(symbol, s.current_date, s.time_of_day)
    IN
    IF price = None THEN [s EXCEPT !.buy_error = "PriceUnavailable"]
    ELSE IF market_closed(s.current_date, symbol)
    THEN [s EXCEPT !.buy_error = "MarketClosed"]
    ELSE
    LET price_decimal == price[1]
        parsed == parse_shares_from_form(form, price_decimal)
    IN
    IF parsed = None THEN [s EXCEPT !.buy_error = "InvalidQuantity"]
    ELSE
    LET shares == parsed[1]
        cost == quantize_cash(Times(shares, price_decimal).q)
        cash_balance == s.cash
    IN
    IF cost <= 0 THEN [s EXCEPT !.buy_error = "ZeroCost"]
    ELSE IF insufficient_funds(cash_balance, cost)
    THEN [s EXCEPT !.buy_error = "InsufficientFunds"]
    ELSE
    LET \* holdings is the session's own dict: the entry created here stays
        \* in the session whatever happens next
        held == IF symbol \in DOMAIN s.holdings THEN s.holdings
                ELSE WithHolding(s.holdings, symbol, [shares |-> 0, avg_cost |-> 0])
        holding == held[symbol]
        current_shares == holding.shares
        current_avg_cost == holding.avg_cost
        new_shares == quantize_shares(current_shares + shares)
        market_cap_value == get_market_cap(symbol)
    IN
    IF /\ market_cap_value # None
       /\ market_cap_value[1] > 0
       /\ cap_reached(Times(new_shares, price_decimal), market_cap_value[1])
    THEN [s EXCEPT !.holdings = held, !.buy_error = "MarketCapExceeded"]
    ELSE
    LET product == Times(current_shares, current_avg_cost)
        total_cost == [q |-> product.q + cost, r |-> product.r]
        avg_cost == IF current_shares > 0 /\ new_shares > 0
                    THEN quantize_cash(CostPerShare(total_cost, new_shares))
                    ELSE price_decimal
    IN update_portfolio_value(
         [s EXCEPT
            !.holdings = WithHolding(held, symbol,
                                     [shares |-> new_shares, avg_cost |-> avg_cost]),
            !.cash = quantize_cash(cash_balance - cost),
            !.transactions =
                Append(@, [date |-> s.current_date, time |-> s.time_of_day,
                           type |-> "BUY", symbol |-> symbol, shares |-> shares,
                           price |-> price_decimal, total |-> cost])])

\* sell(symbol): POST /sell/<symbol> with form fields shares, cash
sell(s, symbol, form) ==
    IF symbol \notin DOMAIN s.holdings THEN [s EXCEPT !.buy_error = "NotOwned"]
    ELSE IF market_closed(s.current_date, symbol)
    THEN [s EXCEPT !.buy_error = "MarketClosed"]
    ELSE
    LET price == get_price(symbol, s.current_date, s.time_of_day)
    IN
    IF price = None THEN [s EXCEPT !.buy_error = "PriceUnavailable"]
    ELSE
    LET holding == s.holdings[symbol]
        current_shares == holding.shares
        price_decimal == price[1]
        parsed == parse_shares_from_form(form, price_decimal)
    IN
    IF parsed = None THEN [s EXCEPT !.buy_error = "InvalidQuantity"]
    ELSE IF parsed[1] <= 0 THEN [s EXCEPT !.buy_error = "InvalidQuantity"]
    ELSE
    LET shares == parsed[1]
        available_shares == current_shares
    IN
    IF insufficient_shares(available_shares, shares)
    THEN [s EXCEPT !.buy_error = "InsufficientShares"]
    ELSE
    LET proceeds == quantize_cash(Times(shares, price_decimal).q)
        cash_balance == s.cash
        avg_cost == holding.avg_cost
        cost_basis == quantize_cash(Times(shares, avg_cost).q)
        profit_loss == proceeds - cost_basis
        remaining_shares == quantize_shares(available_shares - shares)
    IN update_portfolio_value(
         [s EXCEPT
            !.cash = quantize_cash(cash_balance + proceeds),
            !.holdings =
                IF remaining_shares <= 0 THEN WithoutHolding(s.holdings, symbol)
                ELSE WithHolding(s.holdings, symbol,
                                 [holding EXCEPT !.shares = remaining_shares]),
            !.transactions =
                Append(@, [date |-> s.current_date, time |-> s.time_of_day,
                           type |-> "SELL", symbol |-> symbol, shares |-> shares,
                           price |-> price_decimal, total |-> proceeds,
                           profit_loss |-> profit_loss])])

\* a sell-all that sells half of the holding
sell_half(s, symbol) ==
    sell(s, symbol,
         [shares |-> IF symbol \in DOMAIN s.holdings
                     THEN Some(s.holdings[symbol].shares \div 2) ELSE None,
          cash |-> None])

\* sell_all(symbol): POST /sell/<symbol>/all
sell_all(s, symbol) ==
    IF symbol \notin DOMAIN s.holdings THEN [s EXCEPT !.buy_error = "NotOwned"]
    ELSE IF market_closed(s.current_date, symbol)
    THEN [s EXCEPT !.buy_error = "MarketClosed"]
    ELSE
    LET price == get_price(symbol, s.current_date, s.time_of_day)
    IN
    IF price = None THEN [s EXCEPT !.buy_error = "PriceUnavailable"]
    ELSE
    LET holding == s.holdings[symbol]
        amount == holding.shares
    IN
    IF amount <= 0 THEN [s EXCEPT !.buy_error = "NoShares"]
    ELSE
    LET price_decimal == price[1]
        proceeds == quantize_cash(Times(amount, price_decimal).q)
        avg_cost == holding.avg_cost
        cost_basis == quantize_cash(Times(amount, avg_cost).q)
        profit_loss == proceeds - cost_basis
        cash_balance == s.cash
    IN update_portfolio_value(
         [s EXCEPT
            !.cash = quantize_cash(cash_balance + proceeds),
            !.holdings = WithoutHolding(s.holdings, symbol),
            !.transactions =
                Append(@, [date |-> s.current_date, time |-> s.time_of_day,
                           type |-> "SELL ALL", symbol |-> symbol,
                           shares |-> amount, price |-> price_decimal,
                           total |-> proceeds, profit_loss |-> profit_loss])])

----------------------------------------------------------------------------
(* The simulation clock *)

\* a tick that goes to the day before
previous_day(s) ==
    update_portfolio_value([s EXCEPT !.current_date = @ - 1,
                                     !.time_of_day = "open"])

\* a tick that always goes to the open of the next day
tick_to_next_open(s) ==
    update_portfolio_value([s EXCEPT !.current_date = @ + 1,
                                     !.time_of_day = "open"])

\* a tick that records no snapshot
tick_unrecorded(s) ==
    IF s.time_of_day = "open" THEN [s EXCEPT !.time_of_day = "close"]
    ELSE [s EXCEPT !.current_date = @ + 1, !.time_of_day = "open"]

\* next_time(): GET /next
next_time(s) ==
    update_portfolio_value(
        IF s.time_of_day = "open" THEN [s EXCEPT !.time_of_day = "close"]
        ELSE [s EXCEPT !.current_date = @ + 1, !.time_of_day = "open"])

\* the body of "for _ in range(total_months)" of _jump_forward
MonthStep(s) ==
    update_portfolio_value(
        [s EXCEPT !.current_date = add_months(@, 1), !.time_of_day = "open"])

\* the body of "for _ in range(days)" of _jump_forward
DayStep(s) ==
    update_portfolio_value(
        [s EXCEPT !.current_date = @ + 1, !.time_of_day = "open"])

\* for _ in range(total_months)
RECURSIVE StepMonths(_, _)
StepMonths(s, n) == IF n = 0 THEN s ELSE StepMonths(MonthStep(s), n - 1)

\* the days advanced in one leap, with a snapshot at the end alone
leap_days(s, n) ==
    update_portfolio_value(
        [s EXCEPT !.current_date = @ + n, !.time_of_day = "open"])

\* for _ in range(days)
RECURSIVE StepDays(_, _)
StepDays(s, n) == IF n = 0 THEN s ELSE StepDays(DayStep(s), n - 1)

\* _jump_forward(days, months, years)
jump_forward(s, days, months, years) ==
    LET total_months == months + years * 12
        after_months == IF total_months > 0 THEN StepMonths(s, total_months) ELSE s
        after_days == IF days > 0 THEN StepDays(after_months, days) ELSE after_months
        progressed == total_months > 0 \/ days > 0
        done == IF progressed THEN after_days ELSE update_portfolio_value(after_days)
    IN [done EXCEPT !.jump_error = NoError]

\* jump_week(), jump_month(), jump_year()
jump_week(s) == jump_forward(s, 7, 0, 0)
jump_month(s) == jump_forward(s, 0, 1, 0)
jump_year(s) == jump_forward(s, 0, 0, 1)

\* a skip of two days from either day of the weekend
skip_two_days(s) ==
    IF Weekday(s.current_date) < 5 THEN s
    ELSE jump_forward(s, 2, 0, 0)

\* skip_weekend(): GET /skip/weekend
skip_weekend(s) ==
    IF Weekday(s.current_date) < 5 THEN s
    ELSE jump_forward(s, 7 - Weekday(s.current_date), 0, 0)

\* one pass of "while cursor < date_obj" of jump(), on the loop's state
\* [s, cursor, done]: a snapshot at the next month unless it passes the
\* target; a pass after the loop has ended changes nothing
FillMonth(w, date_obj) ==
    IF w.done \/ ~(w.cursor < date_obj) THEN [w EXCEPT !.done = TRUE]
    ELSE LET cursor == add_months(w.cursor, 1)
         IN IF cursor > date_obj THEN [w EXCEPT !.cursor = cursor, !.done = TRUE]
            ELSE [s |-> update_portfolio_value(
                          [w.s EXCEPT !.current_date = cursor,
                                      !.time_of_day = "open"]),
                  cursor |-> cursor, done |-> FALSE]

\* n passes of the while loop of jump().  The passes are split in halves,
\* and the loop's state is looked at before each half, so that the
\* evaluation nests to a depth of log n, not n
RECURSIVE FillPasses(_, _, _)
FillPasses(w, n, date_obj) ==
    IF w.done \/ n = 0 THEN w
    ELSE IF n = 1 THEN FillMonth(w, date_obj)
    ELSE FillPasses(FillPasses(w, n \div 2, date_obj), n - (n \div 2), date_obj)

\* the while loop of jump(): every pass advances the cursor by 28 days or
\* more, so (date_obj - cursor) \div 28 + 1 passes end it
FillMonths(s, cursor, date_obj) ==
    FillPasses([s |-> s, cursor |-> cursor, done |-> FALSE],
               IF cursor < date_obj THEN (date_obj - cursor) \div 28 + 1 ELSE 0,
               date_obj).s

\* a jump that accepts every target date
any_target_allowed(date_obj, current_date_obj) == TRUE

\* date_obj >= current_date_obj: "Only allow jumping forward"
jump_allowed(date_obj, current_date_obj) == date_obj >= current_date_obj

\* a jump that goes straight to its target and records the endpoint alone
jump_to_endpoint(s, year, month, day) ==
    update_portfolio_value(
        [s EXCEPT !.current_date = ToOrdinal(year, month, day),
                  !.time_of_day = "open"])

\* jump(): POST /jump with form fields year, month, day
jump(s, year, month, day) ==
    IF ~ValidDate(year, month, day) THEN [s EXCEPT !.jump_error = "InvalidDate"]
    ELSE
    LET date_obj == ToOrdinal(year, month, day)
        current_date_obj == s.current_date
    IN IF jump_allowed(date_obj, current_date_obj)
       THEN update_portfolio_value(
              [FillMonths(s, current_date_obj, date_obj)
                 EXCEPT !.current_date = date_obj, !.time_of_day = "open"])
       ELSE [s EXCEPT !.jump_error = "BackwardJumpRejected"]

----------------------------------------------------------------------------
(* The history aggregation.  A point is [date, value]; float(value) of a   *)
(* snapshot's value, a float already, is that value.  Every snapshot has a *)
(* date and a value, so the loop skips none.                               *)

\* a key of the year alone
year_key(date_obj, width) == <<YearOf(date_obj), 0>>

\* month_key (width 1) and period_key: the year and the period of the year
period_key(date_obj, aggregation_months) ==
    <<YearOf(date_obj), (MonthOf(date_obj) - 1) \div aggregation_months>>

\* a table, computed once where it is defined and not at each lookup
Table(f) == IF f = << >> THEN << >> ELSE f

\* the two loops "if not existing or date_obj > existing['date']" followed
\* by sorted(..., key=date): of the points of one period the loop keeps the
\* one of the latest date, and of several of that date the first it meets,
\* since a point replaces the kept one only when its date is later.  Kept
\* points of different periods have different dates.
LatestOfPeriods(points, aggregation_months) ==
    LET n == Len(points)
        key == Table([i \in 1..n |->
                        period_key(points[i].date, aggregation_months)])
        kept == {i \in 1..n :
                   \A j \in 1..n :
                      key[j] = key[i] =>
                         \/ points[j].date < points[i].date
                         \/ points[j].date = points[i].date /\ j >= i}
        rank == Table([i \in kept |->
                   Cardinality({j \in kept : points[j].date < points[i].date}) + 1])
    IN Table([k \in 1..Cardinality(kept) |->
                LET i == CHOOSE i \in kept : rank[i] = k
                IN [date |-> points[i].date, value |-> points[i].value]])

\* months_diff of the first and the last point
months_diff(first_date, last_date) ==
    (YearOf(last_date) - YearOf(first_date)) * 12
        + (MonthOf(last_date) - MonthOf(first_date))

\* an aggregation that keeps every month whatever the span
always_monthly(span) == 1

\* "Decide aggregation level based on time range"
aggregation_months(span) ==
    IF span <= 24 THEN 1
    ELSE IF span <= 120 THEN 3
    ELSE 6

\* _aggregate_monthly_history(history)
aggregate_monthly_history(history) ==
    IF history = << >> THEN << >>
    ELSE
    LET sorted_months == LatestOfPeriods(history, 1)
        width == aggregation_months(
                     months_diff(sorted_months[1].date,
                                 sorted_months[Len(sorted_months)].date))
    IN IF width = 1 THEN sorted_months
       ELSE LatestOfPeriods(sorted_months, width)

\* index(): "Calculate portfolio": cash plus the positions that have shares
\* and a price
portfolio_value(s) ==
    AddValue([q |-> s.cash, r |-> 0],
             SumPositions(s.holdings, DOMAIN s.holdings,
                          s.current_date, s.time_of_day))

\* the walk "while next_month.strftime('%Y-%m') != current_month_key" of
\* index(), followed for at most `passes` passes: a flat point of
\* last_value for every month before the current one; ended tells whether
\* the walk reached the current month
RECURSIVE FillGap(_, _, _, _, _)
FillGap(points, gap_cursor, current_month_key, last_value, passes) ==
    LET next_month == add_months(gap_cursor, 1)
    IN IF period_key(next_month, 1) = current_month_key
       THEN [monthly_history |-> points, ended |-> TRUE]
       ELSE IF passes = 0 THEN [monthly_history |-> points, ended |-> FALSE]
       ELSE FillGap(Append(points, [date |-> next_month, value |-> last_value]),
                    next_month, current_month_key, last_value, passes - 1)

\* sorted(monthly_history, key=date): a stable sort
SortedByDate(points) ==
    LET n == Len(points)
        rank == Table([i \in 1..n |->
                   Cardinality({j \in 1..n :
                                  \/ points[j].date < points[i].date
                                  \/ points[j].date = points[i].date /\ j < i}) + 1])
    IN Table([k \in 1..n |-> points[CHOOSE i \in 1..n : rank[i] = k]])

\* index(): the chart from the aggregated snapshots: the point of the
\* current month is overwritten with the live value, or the months up to
\* the current one are filled and the live point appended
display_history(aggregated, date, live_value) ==
    LET live == [date |-> date, value |-> live_value]
        current_month_key == period_key(date, 1)
    IN IF aggregated # << >>
       THEN LET n == Len(aggregated)
                last_entry == aggregated[n]
            IN IF period_key(last_entry.date, 1) = current_month_key
               THEN [monthly_history |->
                         SortedByDate([aggregated EXCEPT ![n] = live]),
                     ended |-> TRUE]
               ELSE LET filled == FillGap(aggregated, last_entry.date,
                                          current_month_key, last_entry.value,
                                          MaxWalk)
                    IN [monthly_history |->
                            SortedByDate(Append(filled.monthly_history, live)),
                        ended |-> filled.ended]
       ELSE [monthly_history |-> <<live>>, ended |-> TRUE]

----------------------------------------------------------------------------
(* The watch list *)

\* symbol.upper(), on the symbols a request may carry
upper(symbol) ==
    IF symbol = "xyz" THEN EQUITY
    ELSE IF symbol = "btc-usd" THEN CRYPTO
    ELSE symbol

\* list.remove(symbol): the list without the first occurrence of symbol
Remove(list, symbol) ==
    LET first == CHOOSE i \in 1..Len(list) :
                     /\ list[i] = symbol
                     /\ \A j \in 1..(i - 1) : list[j] # symbol
    IN SubSeq(list, 1, first - 1) \o SubSeq(list, first + 1, Len(list))

\* pin_stock: the symbol goes to the end of the watch list unless it is on it
pin_stock(s, symbol) ==
    IF \A i \in 1..Len(s.pinned_stocks) : s.pinned_stocks[i] # upper(symbol)
    THEN [s EXCEPT !.pinned_stocks = Append(@, upper(symbol))]
    ELSE s

\* a variant that also closes the position in the symbol it takes off the
\* watch list
unpin_and_forget(s, symbol) ==
    IF \E i \in 1..Len(s.pinned_stocks) : s.pinned_stocks[i] = upper(symbol)
    THEN [s EXCEPT !.pinned_stocks = Remove(@, upper(symbol)),
                   !.holdings = IF upper(symbol) \in DOMAIN @
                                THEN WithoutHolding(@, upper(symbol)) ELSE @]
    ELSE s

\* unpin_stock: the symbol leaves the watch list if it is on it
unpin_stock(s, symbol) ==
    IF \E i \in 1..Len(s.pinned_stocks) : s.pinned_stocks[i] = upper(symbol)
    THEN [s EXCEPT !.pinned_stocks = Remove(@, upper(symbol))]
    ELSE s

----------------------------------------------------------------------------
(* Requests.  The inputs a request carries are drawn from small sets.      *)

Form(shares, cash_value) == [shares |-> shares, cash |-> cash_value]
NoForm == Form(None, None)
NoTarget == << >>

\* shares = 10, 5, 0.12349, 0.00001, 0.0001, 60, 100; cash = 100.00
BuyForms ==
    {Form(Some(1000000), None), Form(Some(500000), None), Form(Some(12349), None),
     Form(Some(1), None), Form(Some(10), None), Form(Some(6000000), None),
     Form(Some(10000000), None), Form(None, Some(100000))}

\* shares = 10, 5, 0.12349; cash = 100.00
SellForms ==
    {Form(Some(1000000), None), Form(Some(500000), None), Form(Some(12349), None),
     Form(None, Some(100000))}

\* a Saturday of the equity's series, the start date, no date at all, the
\* day three months after the start date, and a Sunday of the crypto-asset's
\* series
JumpTargets ==
    {<<2000, 1, 8>>, <<2000, 1, 3>>, <<2000, 2, 30>>, <<2000, 4, 3>>, <<2012, 1, 1>>}

\* a symbol the catalog does not hold
UNLISTED == "ZZZ"

\* the symbols and the dates prices are looked up for
QuoteSymbols == cache \cup {UNLISTED}
QuoteAnchors ==
    {START_DATE - MAX_DAYS_BEFORE_CACHE, START_DATE, EQUITY_LAST_SESSION,
     BITCOIN_INVENTION_DATE, LOAD_END_DATE, ETHEREUM_INVENTION_DATE,
     ToOrdinal(2015, 8, 20), ToOrdinal(2015, 9, 30)}
QuoteDates == UNION {(anchor - Margin)..(anchor + Margin) : anchor \in QuoteAnchors}

\* no lookup made yet
NoQuote == [fn |-> "none", symbol |-> "", date |-> 0, time |-> "open",
            result |-> None]

Init ==
    /\ current_date = InitialSession.current_date
    /\ time_of_day = InitialSession.time_of_day
    /\ cash = InitialSession.cash
    /\ holdings = InitialSession.holdings
    /\ transactions = InitialSession.transactions
    /\ portfolio_history = InitialSession.portfolio_history
    /\ buy_error = InitialSession.buy_error
    /\ jump_error = InitialSession.jump_error
    /\ pinned_stocks = InitialSession.pinned_stocks
    /\ last = [op |-> "index", symbol |-> "", form |-> NoForm,
               target |-> NoTarget, pre |-> InitialSession]
    /\ ops = 0
    /\ quote = NoQuote
    /\ monthly_history = aggregate_monthly_history(InitialSession.portfolio_history)
    /\ chart = display_history(
                   aggregate_monthly_history(InitialSession.portfolio_history),
                   InitialSession.current_date, portfolio_value(InitialSession))

\* one request of a run of at most `limit` requests: the session becomes
\* `result`; `last` records the request and the session it found
Respond(limit, op, symbol, form, target, result) ==
    /\ ops < limit
    /\ current_date' = result.current_date
    /\ time_of_day' = result.time_of_day
    /\ cash' = result.cash
    /\ holdings' = result.holdings
    /\ transactions' = result.transactions
    /\ portfolio_history' = result.portfolio_history
    /\ buy_error' = result.buy_error
    /\ jump_error' = result.jump_error
    /\ pinned_stocks' = result.pinned_stocks
    /\ last' = [op |-> op, symbol |-> symbol, form |-> form, target |-> target,
                pre |-> Cleared(Session)]
    /\ ops' = ops + 1
    /\ UNCHANGED <<quote, monthly_history, chart>>

Request(op, symbol, form, target, result) ==
    Respond(MaxOps, op, symbol, form, target, result)

Buy(symbol, form) ==
    Request("buy", symbol, form, NoTarget, execute_buy(Cleared(Session), symbol, form))

Sell(symbol, form) ==
    Request("sell", symbol, form, NoTarget, sell(Cleared(Session), symbol, form))

SellAll(symbol) ==
    Request("sell_all", symbol, NoForm, NoTarget, sell_all(Cleared(Session), symbol))

NextTime == Request("next", "", NoForm, NoTarget, next_time(Cleared(Session)))

JumpWeek == Request("jump_week", "", NoForm, NoTarget, jump_week(Cleared(Session)))

JumpMonth == Request("jump_month", "", NoForm, NoTarget, jump_month(Cleared(Session)))

JumpYear == Request("jump_year", "", NoForm, NoTarget, jump_year(Cleared(Session)))

SkipWeekend ==
    Request("skip_weekend", "", NoForm, NoTarget, skip_weekend(Cleared(Session)))

Jump(target) ==
    Request("jump", "", NoForm, target,
            jump(Cleared(Session), target[1], target[2], target[3]))

Next ==
    \/ \E symbol \in Symbols, form \in BuyForms : Buy(symbol, form)
    \/ \E symbol \in Symbols, form \in SellForms : Sell(symbol, form)
    \/ \E symbol \in Symbols : SellAll(symbol)
    \/ NextTime
    \/ JumpWeek
    \/ JumpMonth
    \/ JumpYear
    \/ SkipWeekend
    \/ \E target \in JumpTargets : Jump(target)

Spec == Init /\ [][Next]_vars

----------------------------------------------------------------------------
(* Price lookups: get_price and get_price_change applied to a symbol, a    *)
(* date and a time of day.                                                 *)

\* one lookup in a run: a lookup reads the catalog alone, so it does not
\* depend on the one before
Lookup(fn, symbol, date, tod, result) ==
    /\ quote = NoQuote
    /\ quote' = [fn |-> fn, symbol |-> symbol, date |-> date, time |-> tod,
                 result |-> result]
    /\ UNCHANGED <<current_date, time_of_day, cash, holdings, transactions,
                   portfolio_history, buy_error, jump_error, pinned_stocks,
                   last, ops, monthly_history, chart>>

GetPrice(symbol, date, tod) ==
    Lookup("get_price", symbol, date, tod, get_price(symbol, date, tod))

GetPriceChange(symbol, date, tod) ==
    Lookup("get_price_change", symbol, date, tod,
           get_price_change(symbol, date, tod))

QuoteNext ==
    \/ \E symbol \in QuoteSymbols, date \in QuoteDates, tod \in {"open", "close"} :
          GetPrice(symbol, date, tod)
    \/ \E symbol \in QuoteSymbols, date \in QuoteDates, tod \in {"open", "close"} :
          GetPriceChange(symbol, date, tod)

QuoteSpec == Init /\ [][QuoteNext]_vars

----------------------------------------------------------------------------
(* The scenario: 10 shares bought at the open of the first day, 5 more at  *)
(* the open of the second, everything sold at the open of the third.       *)

ScenarioBuy(form) ==
    Respond(ScenarioOps, "buy", EQUITY, form, NoTarget,
            execute_buy(Cleared(Session), EQUITY, form))

ScenarioSellAll ==
    Respond(ScenarioOps, "sell_all", EQUITY, NoForm, NoTarget,
            sell_all(Cleared(Session), EQUITY))

ScenarioNextTime ==
    Respond(ScenarioOps, "next", "", NoForm, NoTarget, next_time(Cleared(Session)))

ScenarioNext ==
    \/ \E form \in {Form(Some(1000000), None), Form(Some(500000), None)} :
          ScenarioBuy(form)
    \/ ScenarioSellAll
    \/ ScenarioNextTime

ScenarioSpec == Init /\ [][ScenarioNext]_vars

----------------------------------------------------------------------------
(* The clock alone: runs of clock requests, with jump targets that start   *)
(* from and land on the ends of months.                                    *)

\* the last day of January, the middle of February, the first days of March
\* and of May, and a Saturday
ClockTargets ==
    {<<2000, 1, 31>>, <<2000, 2, 15>>, <<2000, 3, 1>>, <<2000, 5, 1>>, <<2000, 1, 8>>}

ClockNextTime ==
    Respond(ClockOps, "next", "", NoForm, NoTarget, next_time(Cleared(Session)))

ClockJumpWeek ==
    Respond(ClockOps, "jump_week", "", NoForm, NoTarget, jump_week(Cleared(Session)))

ClockJumpMonth ==
    Respond(ClockOps, "jump_month", "", NoForm, NoTarget, jump_month(Cleared(Session)))

ClockJumpYear ==
    Respond(ClockOps, "jump_year", "", NoForm, NoTarget, jump_year(Cleared(Session)))

ClockSkipWeekend ==
    Respond(ClockOps, "skip_weekend", "", NoForm, NoTarget,
            skip_weekend(Cleared(Session)))

ClockJump(target) ==
    Respond(ClockOps, "jump", "", NoForm, target,
            jump(Cleared(Session), target[1], target[2], target[3]))

ClockNext ==
    \/ ClockNextTime
    \/ ClockJumpWeek
    \/ ClockJumpMonth
    \/ ClockJumpYear
    \/ ClockSkipWeekend
    \/ \E target \in ClockTargets : ClockJump(target)

ClockSpec == Init /\ [][ClockNext]_vars

----------------------------------------------------------------------------
(* The chart: trades and clock requests, and the index page that           *)
(* aggregates the snapshots they wrote.                                    *)

\* the dates 24 and 120 months after the start date; a month's advance from
\* them gives 25 and 121
ChartTargets == {<<2002, 1, 3>>, <<2010, 1, 3>>}

\* index(): GET /, as far as the chart goes: the errors are shown once, the
\* snapshots are aggregated (monthly_history as line 531 has it) and the
\* chart is completed to the current date (chart: monthly_history as the
\* page gets it, and whether the gap-filling walk ended)
Index ==
    /\ monthly_history' = aggregate_monthly_history(portfolio_history)
    /\ chart' = display_history(monthly_history', current_date,
                                portfolio_value(Session))
    /\ buy_error' = NoError
    /\ jump_error' = NoError
    /\ last' = [op |-> "index", symbol |-> "", form |-> NoForm,
                target |-> NoTarget, pre |-> Session]
    /\ UNCHANGED <<current_date, time_of_day, cash, holdings, transactions,
                   portfolio_history, pinned_stocks, ops, quote>>

ChartBuy ==
    Respond(ChartOps, "buy", EQUITY, Form(Some(1000000), None), NoTarget,
            execute_buy(Cleared(Session), EQUITY, Form(Some(1000000), None)))

ChartNextTime ==
    Respond(ChartOps, "next", "", NoForm, NoTarget, next_time(Cleared(Session)))

ChartJumpMonth ==
    Respond(ChartOps, "jump_month", "", NoForm, NoTarget, jump_month(Cleared(Session)))

ChartJump(target) ==
    Respond(ChartOps, "jump", "", NoForm, target,
            jump(Cleared(Session), target[1], target[2], target[3]))

ChartNext ==
    \/ Index
    \/ ChartBuy
    \/ ChartNextTime
    \/ ChartJumpMonth
    \/ \E target \in ChartTargets : ChartJump(target)

ChartSpec == Init /\ [][ChartNext]_vars

----------------------------------------------------------------------------
(* Every kind of request: trades, clock requests and the watch list, with  *)
(* one or two inputs each.                                                 *)

\* ten shares, and a form with neither field
FrameBuyForms == {Form(Some(1000000), None), Form(None, None)}

\* a later date and an earlier one
FrameTargets == {<<2000, 2, 15>>, <<1999, 12, 31>>}

\* symbols as the watch list routes may get them
PinSymbols == {"xyz", CRYPTO}

FrameBuy(form) ==
    Respond(FrameOps, "buy", EQUITY, form, NoTarget,
            execute_buy(Cleared(Session), EQUITY, form))

FrameSell ==
    Respond(FrameOps, "sell", EQUITY, Form(Some(500000), None), NoTarget,
            sell(Cleared(Session), EQUITY, Form(Some(500000), None)))

FrameSellAll ==
    Respond(FrameOps, "sell_all", EQUITY, NoForm, NoTarget,
            sell_all(Cleared(Session), EQUITY))

FrameNextTime ==
    Respond(FrameOps, "next", "", NoForm, NoTarget, next_time(Cleared(Session)))

FrameJumpWeek ==
    Respond(FrameOps, "jump_week", "", NoForm, NoTarget, jump_week(Cleared(Session)))

FrameJumpMonth ==
    Respond(FrameOps, "jump_month", "", NoForm, NoTarget, jump_month(Cleared(Session)))

FrameJumpYear ==
    Respond(FrameOps, "jump_year", "", NoForm, NoTarget, jump_year(Cleared(Session)))

FrameSkipWeekend ==
    Respond(FrameOps, "skip_weekend", "", NoForm, NoTarget,
            skip_weekend(Cleared(Session)))

FrameJump(target) ==
    Respond(FrameOps, "jump", "", NoForm, target,
            jump(Cleared(Session), target[1], target[2], target[3]))

Pin(symbol) ==
    Respond(FrameOps, "pin", symbol, NoForm, NoTarget,
            pin_stock(Cleared(Session), symbol))

Unpin(symbol) ==
    Respond(FrameOps, "unpin", symbol, NoForm, NoTarget,
            unpin_stock(Cleared(Session), symbol))

FrameNext ==
    \/ \E form \in FrameBuyForms : FrameBuy(form)
    \/ FrameSell
    \/ FrameSellAll
    \/ FrameNextTime
    \/ FrameJumpWeek
    \/ FrameJumpMonth
    \/ FrameJumpYear
    \/ FrameSkipWeekend
    \/ \E target \in FrameTargets : FrameJump(target)
    \/ \E symbol \in PinSymbols : Pin(symbol)
    \/ \E symbol \in PinSymbols : Unpin(symbol)

FrameSpec == Init /\ [][FrameNext]_vars

----------------------------------------------------------------------------
(* Properties *)

\* the simulation state a request may change
Ledger(s) ==
    <<s.current_date, s.time_of_day, s.cash, s.holdings, s.transactions,
      s.portfolio_history>>

\* the session the last request found
Pre == last.pre

\* the last request ended in an error
Failed == buy_error # NoError \/ jump_error # NoError

\* the last request was a trade that went through
Traded(op) == last.op = op /\ ~Failed

\* shares of symbol held in session s, 0 when it has no entry
HeldShares(s, symbol) ==
    IF symbol \in DOMAIN s.holdings THEN s.holdings[symbol].shares ELSE 0

\* the snapshots the last request appended
Appended == (Len(Pre.portfolio_history) + 1)..Len(portfolio_history)

\* C1: every buy, sell, sellAll or jumpToDate that ends in an error leaves
\* current_date, time_of_day, cash, the holdings map, the transaction log
\* and the snapshot list exactly as they were before the call.
C1_FailedOperationLeavesStateUnchanged ==
    (last.op \in {"buy", "sell", "sell_all", "jump"} /\ Failed)
        => Ledger(Session) = Ledger(Pre)

\* the logged totals: a BUY takes its total from cash, a sale adds it
RECURSIVE CashFlow(_, _)
CashFlow(txs, i) ==
    IF i = 0 THEN 0
    ELSE CashFlow(txs, i - 1)
         + (IF txs[i].type = "BUY" THEN -txs[i].total ELSE txs[i].total)

\* the logged shares of symbol: bought minus sold
RECURSIVE ShareFlow(_, _, _)
ShareFlow(txs, i, symbol) ==
    IF i = 0 THEN 0
    ELSE ShareFlow(txs, i - 1, symbol)
         + (IF txs[i].symbol # symbol THEN 0
            ELSE IF txs[i].type = "BUY" THEN txs[i].shares ELSE -txs[i].shares)

\* C2: in every reachable state cash equals the initial 10000.00 minus the
\* totals of the logged BUYs plus the totals of the logged SELLs and
\* SELL_ALLs, and for every symbol the held shares equal the shares bought
\* minus the shares sold, the symbol being absent from holdings exactly when
\* that difference is zero.
C2_LedgerNeverLosesOrFabricates ==
    /\ cash = INITIAL_CASH + CashFlow(transactions, Len(transactions))
    /\ \A symbol \in Symbols :
         LET net == ShareFlow(transactions, Len(transactions), symbol)
         IN /\ (symbol \notin DOMAIN holdings) <=> (net = 0)
            /\ HeldShares(Session, symbol) = net

\* the most recent session of symbol on or before date (date is not before
\* the first one)
RECURSIVE LastKnownSession(_, _)
LastKnownSession(symbol, date) ==
    IF date > LastSession(symbol) THEN LastKnownSession(symbol, LastSession(symbol))
    ELSE IF HasSession(symbol, date) THEN date
    ELSE LastKnownSession(symbol, date - 1)

\* the last known price of symbol at (date, tod): the resolved price, or the
\* price of the most recent session when none resolves
LastKnownPrice(symbol, date, tod) ==
    LET price == get_price(symbol, date, tod)
    IN IF price # None THEN price[1]
       ELSE IF date < FirstSession(symbol) THEN 0
       ELSE IF tod = "open" THEN OpenPrice(symbol, LastKnownSession(symbol, date))
       ELSE ClosePrice(symbol, LastKnownSession(symbol, date))

\* the sum over the holdings todo of shares times last known price
RECURSIVE ValueAtLastKnownPrices(_, _, _, _)
ValueAtLastKnownPrices(hs, todo, date, tod) ==
    IF todo = {} THEN [q |-> 0, r |-> 0]
    ELSE LET symbol == CHOOSE x \in todo : TRUE
         IN AddValue(ValueAtLastKnownPrices(hs, todo \ {symbol}, date, tod),
                     Times(hs[symbol].shares, LastKnownPrice(symbol, date, tod)))

\* C3: every snapshot appended by an operation has total_value equal to cash
\* plus the sum over every holding of shares times the last known price of
\* its symbol, a position whose price cannot be resolved at the snapshot's
\* (date, time_of_day) included.
C3_SnapshotValuesEveryHolding ==
    \A i \in Appended :
        portfolio_history[i].value =
            AddValue([q |-> cash, r |-> 0],
                     ValueAtLastKnownPrices(holdings, DOMAIN holdings,
                                            portfolio_history[i].date,
                                            portfolio_history[i].time))

\* the price the last request resolved, None when there was none
PrePrice == get_price(last.symbol, Pre.current_date, Pre.time_of_day)

\* the share count the last request asked for, None when it is not a
\* positive quantity
Quantity == parse_shares_from_form(last.form, PrePrice[1])

\* the truncated cost (or proceeds) of the last request
Amount == quantize_cash(Times(Quantity[1], PrePrice[1]).q)

\* the sale of exactly the shares the last buy logged, at the same instant
\* and so at the same price
SellBack ==
    sell(Cleared(Session), last.symbol,
         Form(Some(transactions[Len(transactions)].shares), None))

\* C4: whenever a buy of X shares of a symbol at price P has succeeded, the
\* immediately following sell of the same X shares at the same price
\* succeeds and returns cash exactly to its value before the buy; if the
\* symbol was not in the ledger before the buy the holding is removed,
\* otherwise its share count is back to its value before the buy.
C4_BuyThenSellRestoresLedger ==
    Traded("buy") =>
        /\ SellBack.buy_error = NoError
        /\ SellBack.cash = Pre.cash
        /\ IF last.symbol \notin DOMAIN Pre.holdings
           THEN last.symbol \notin DOMAIN SellBack.holdings
           ELSE HeldShares(SellBack, last.symbol) = HeldShares(Pre, last.symbol)

\* a first buy of a symbol has succeeded and selling it back empties the
\* ledger of it and restores cash
C4_Witness ==
    /\ Traded("buy")
    /\ last.symbol \notin DOMAIN Pre.holdings
    /\ cash < Pre.cash
    /\ SellBack.buy_error = NoError
    /\ SellBack.cash = Pre.cash
    /\ last.symbol \notin DOMAIN SellBack.holdings

\* the last request was a jump to a real calendar date before current_date
BackwardJump ==
    /\ last.op = "jump"
    /\ ValidDate(last.target[1], last.target[2], last.target[3])
    /\ ToOrdinal(last.target[1], last.target[2], last.target[3]) < Pre.current_date

\* C5: a jumpToDate whose target is strictly before current_date always
\* fails with BackwardJumpRejected, leaves the whole state unchanged and
\* appends no snapshot.
C5_BackwardJumpRejected ==
    BackwardJump =>
        /\ jump_error = "BackwardJumpRejected"
        /\ Ledger(Session) = Ledger(Pre)

\* a jump back to the start date has been rejected after the clock had
\* moved on
C5_Witness ==
    /\ BackwardJump
    /\ Pre.current_date > START_DATE
    /\ jump_error = "BackwardJumpRejected"
    /\ current_date = Pre.current_date

\* the instant of a session: its date, open before close
Instant(s) == 2 * s.current_date + (IF s.time_of_day = "close" THEN 1 ELSE 0)

\* C6: over every operation the instant (current_date, time_of_day), open
\* before close, never moves backward, a jumpToDate whose target equals
\* current_date while time_of_day is close included.
C6_TimelineForwardOnly == Instant(Session) >= Instant(Pre)

\* C7: every entry of the holdings map has shares greater than zero.
C7_HoldingsArePositive ==
    \A symbol \in DOMAIN holdings : holdings[symbol].shares > 0

\* C8: every holding's shares is a multiple of 0.0001 and its avg_cost a
\* non-negative multiple of 0.01, whatever the prices traded at, first buys
\* included.
C8_HoldingPrecision ==
    \A symbol \in DOMAIN holdings :
        /\ holdings[symbol].shares % SHARE_STEP = 0
        /\ holdings[symbol].avg_cost >= 0
        /\ holdings[symbol].avg_cost % CASH_STEP = 0

\* the last request was a buy whose price resolved, in an open market, for a
\* positive quantity whose truncated cost exceeds the cash available
UnaffordableBuy ==
    /\ last.op = "buy"
    /\ PrePrice # None
    /\ ~(IsWeekend(Pre.current_date) /\ last.symbol \notin CRYPTOCURRENCIES)
    /\ Quantity # None
    /\ Amount > Pre.cash

WeekendTrade ==
    /\ last.op \in {"buy", "sell", "sell_all"}
    /\ IsWeekend(Pre.current_date)

\* C10 as stated: on a Saturday or Sunday every buy, sell or sellAll of a
\* non-crypto symbol fails with MarketClosed, whatever else is true of the
\* request.
C10_WeekendAlwaysMarketClosed ==
    (WeekendTrade /\ last.symbol \notin CRYPTOCURRENCIES)
        => buy_error = "MarketClosed"

\* the position a buy would leave stays under the symbol's market cap
UnderMarketCap ==
    LET market_cap_value == get_market_cap(last.symbol)
        new_shares == quantize_shares(HeldShares(Pre, last.symbol) + Quantity[1])
    IN \/ market_cap_value = None
       \/ market_cap_value[1] <= 0
       \/ Times(new_shares, PrePrice[1]).q < market_cap_value[1]

\* C10: on a Saturday or Sunday no buy, sell or sellAll of a non-crypto
\* symbol succeeds: a buy fails with MarketClosed when its price resolves
\* and with PriceUnavailable when it does not, a sell or sellAll fails with
\* MarketClosed when the symbol is in the ledger and as not owned when it
\* is not.  The same call for a crypto symbol is never rejected as
\* MarketClosed, and succeeds when its price resolves and its quantity,
\* funds (or shares held) and market-cap preconditions hold.
C10_WeekendTrading ==
    WeekendTrade =>
        IF last.symbol \notin CRYPTOCURRENCIES
        THEN /\ Failed
             /\ Ledger(Session) = Ledger(Pre)
             /\ last.op = "buy" =>
                    buy_error = (IF PrePrice # None THEN "MarketClosed"
                                 ELSE "PriceUnavailable")
             /\ last.op # "buy" =>
                    buy_error = (IF last.symbol \in DOMAIN Pre.holdings
                                 THEN "MarketClosed" ELSE "NotOwned")
        ELSE /\ buy_error # "MarketClosed"
             /\ (/\ last.op = "buy"
                 /\ PrePrice # None
                 /\ Quantity # None
                 /\ Amount > 0
                 /\ Amount <= Pre.cash
                 /\ UnderMarketCap)
                    => (~Failed /\ cash = Pre.cash - Amount)
             /\ (/\ last.op = "sell"
                 /\ PrePrice # None
                 /\ Quantity # None
                 /\ Quantity[1] <= HeldShares(Pre, last.symbol)
                 /\ last.symbol \in DOMAIN Pre.holdings)
                    => (~Failed /\ cash = Pre.cash + Amount)
             /\ (/\ last.op = "sell_all"
                 /\ PrePrice # None
                 /\ HeldShares(Pre, last.symbol) > 0)
                    => (~Failed /\ last.symbol \notin DOMAIN holdings)

\* on a weekend a crypto buy has gone through, and so has the sale of a
\* crypto position
C10_Witness ==
    /\ WeekendTrade
    /\ last.symbol \in CRYPTOCURRENCIES
    /\ last.op \in {"sell", "sell_all"}
    /\ ~Failed
    /\ cash > Pre.cash

----------------------------------------------------------------------------
(* Properties of the price lookups *)

\* the last lookup was one of fn
Looked(fn) == quote.fn = fn

\* +1 when the lookup of symbol searches forward in time, -1 when backward
Direction(symbol) == IF symbol \in CRYPTOCURRENCIES THEN 1 ELSE -1

\* the nearest session of symbol at or after date in its search direction
\* lies exactly k calendar days away
SessionAway(symbol, date, k) ==
    /\ HasSession(symbol, date + k * Direction(symbol))
    /\ \A j \in 0..(k - 1) : ~HasSession(symbol, date + j * Direction(symbol))

\* date precedes the known first-trade date of symbol, or, that date being
\* unknown, lies more than 30 days before the first date of its series
BeforeExistence(symbol, date) ==
    IF get_ipo_date(symbol) # None THEN date < get_ipo_date(symbol)[1]
    ELSE FirstSession(symbol) - date > 30

\* C11: the probing of get_price is bounded at 10 attempts: a session lying
\* k calendar days from the requested date in the search direction is
\* resolved for every 1 <= k <= 10, and a lookup with no session within
\* those 10 days returns no price.
C11_ProbingResolvesTenDays ==
    (/\ Looked("get_price")
     /\ quote.symbol \in cache
     /\ ~BeforeExistence(quote.symbol, quote.date))
        => /\ \A k \in 1..10 :
                SessionAway(quote.symbol, quote.date, k) => quote.result # None
           /\ (\A k \in 0..10 :
                ~HasSession(quote.symbol, quote.date + k * Direction(quote.symbol)))
                    => quote.result = None

\* the price of the session of symbol on day at the time of day tod
SessionPrice(symbol, day, tod) ==
    IF tod = "open" THEN OpenPrice(symbol, day) ELSE ClosePrice(symbol, day)

\* C12: a price returned by get_price comes from a single session chosen by
\* direction: for an equity the most recent session on or before the
\* requested date, for a crypto-asset the earliest session on or after it;
\* it is that session's Open when time_of_day is open and its Close
\* otherwise.
C12_PriceOfNearestSessionInDirection ==
    (Looked("get_price") /\ quote.result # None)
        => \E k \in 0..10 :
              /\ SessionAway(quote.symbol, quote.date, k)
              /\ quote.result =
                    Some(SessionPrice(quote.symbol,
                                      quote.date + k * Direction(quote.symbol),
                                      quote.time))

\* a crypto-asset's price was taken from a later day, the requested date
\* having no session although an earlier day has one
C12_Witness ==
    /\ Looked("get_price")
    /\ quote.symbol \in CRYPTOCURRENCIES
    /\ ~HasSession(quote.symbol, quote.date)
    /\ HasSession(quote.symbol, quote.date - 1)
    /\ quote.time = "close"
    /\ quote.result # None

\* C13: get_price returns no price whenever the requested date precedes the
\* symbol's known first-trade date and, that date being unknown, whenever
\* the requested date is more than 30 calendar days before the first date of
\* the series, whatever the series holds; a date exactly 30 days before is
\* not rejected by that rule.
C13_NoPriceBeforeExistence ==
    Looked("get_price") =>
        /\ BeforeExistence(quote.symbol, quote.date) => quote.result = None
        /\ FirstSession(quote.symbol) - quote.date = 30
              => ~way_before_cache(quote.date, FirstSession(quote.symbol))

\* a date two days before a known first-trade date that has a session got no
\* price, although probing forward would have met that session
C13_Witness ==
    /\ Looked("get_price")
    /\ get_ipo_date(quote.symbol) # None
    /\ quote.date = get_ipo_date(quote.symbol)[1] - 2
    /\ HasSession(quote.symbol, quote.date + 2)
    /\ quote.result = None

\* the sessions of symbol among the 10 calendar days before date
SessionsBefore(symbol, date) ==
    {day \in (date - 10)..(date - 1) : HasSession(symbol, day)}

\* the latest day of a non-empty set of days
Latest(days) == CHOOSE day \in days : \A other \in days : other <= day

\* C14: get_price_change returns (None, None) exactly when the current price
\* is unavailable or zero; otherwise, prev being the Close of the most
\* recent session among the 10 calendar days before the requested date, it
\* returns (current - prev, (current - prev) / prev x 100) when prev exists
\* and is not zero, and (0, 0) when prev is zero or there is no such session.
C14_PriceChange ==
    Looked("get_price_change") =>
        LET current == get_price(quote.symbol, quote.date, quote.time)
            before == SessionsBefore(quote.symbol, quote.date)
            prev == ClosePrice(quote.symbol, Latest(before))
        IN /\ (quote.result = NoChange) <=> (current = None \/ current[1] = 0)
           /\ quote.result # NoChange =>
                 IF before # {} /\ prev # 0
                 THEN quote.result =
                        Change(current[1] - prev, (current[1] - prev) * 100, prev)
                 ELSE quote.result = Change(0, 0, 1)

\* a change other than zero was returned
C14_Witness ==
    /\ Looked("get_price_change")
    /\ quote.result # NoChange
    /\ quote.result.change[1] < 0
    /\ SessionsBefore(quote.symbol, quote.date) # {}

----------------------------------------------------------------------------
(* Properties of the scenario *)

\* transaction i of the log is a trade of the equity of this kind, share
\* count and price
Logged(i, type, shares, price) ==
    /\ transactions[i].type = type
    /\ transactions[i].symbol = EQUITY
    /\ transactions[i].shares = shares
    /\ transactions[i].price = price

\* the stages of the scenario, from the initial cash of 10000.00: 10 shares
\* bought at 150.00, then 5 more at 160.00, then all 15 sold at 170.00
AfterFirstBuy ==
    /\ Len(transactions) = 1
    /\ Logged(1, "BUY", 1000000, 150000)

AfterSecondBuy ==
    /\ Len(transactions) = 2
    /\ Logged(1, "BUY", 1000000, 150000)
    /\ Logged(2, "BUY", 500000, 160000)

AfterSellAll ==
    /\ Len(transactions) = 3
    /\ Logged(1, "BUY", 1000000, 150000)
    /\ Logged(2, "BUY", 500000, 160000)
    /\ Logged(3, "SELL ALL", 1500000, 170000)

\* C15: from cash 10000.00, buying 10 shares at 150.00 gives cash 8500.00
\* and the holding {10 shares, avg_cost 150.00}; buying 5 more at 160.00
\* gives the holding {15 shares, avg_cost 153.33}; selling all at 170.00
\* yields proceeds 2550.00 and profit_loss 250.05 and leaves no holding.
C15_ScenarioLedger ==
    /\ AfterFirstBuy =>
          /\ cash = 8500000
          /\ DOMAIN holdings = {EQUITY}
          /\ holdings[EQUITY] = [shares |-> 1000000, avg_cost |-> 150000]
    /\ AfterSecondBuy =>
          /\ DOMAIN holdings = {EQUITY}
          /\ holdings[EQUITY] = [shares |-> 1500000, avg_cost |-> 153330]
    /\ AfterSellAll =>
          /\ transactions[3].total = 2550000
          /\ transactions[3].profit_loss = 2550000 - 2299950
          /\ transactions[3].profit_loss = 250050
          /\ DOMAIN holdings = {}

\* the scenario has been played to its end
C15_Witness ==
    /\ AfterSellAll
    /\ transactions[3].profit_loss = 250050
    /\ DOMAIN holdings = {}

\* C16 as stated: the cash balance after the sell-all of the scenario is
\* 11050.00.
C16_ScenarioCashAsStated == AfterSellAll => cash = 11050000

\* C16: the cash balance after the sell-all of the scenario is 10250.00,
\* that is 10000.00 - 1500.00 - 800.00 + 2550.00.
C16_ScenarioCash == AfterSellAll => cash = 10250000

\* the sell-all of the scenario has just been served
C16_Witness ==
    /\ AfterSellAll
    /\ last.op = "sell_all"
    /\ ~Failed
    /\ cash = Pre.cash + 2550000

----------------------------------------------------------------------------
(* Properties of the sales and of the snapshot list *)

\* sell_all of symbol, and the sell of its full holding, from this state
SoldAll(symbol) == sell_all(Cleared(Session), symbol)
SoldFull(symbol) ==
    sell(Cleared(Session), symbol,
         Form(IF symbol \in DOMAIN holdings THEN Some(holdings[symbol].shares)
              ELSE None, None))

\* the last transaction of session s
LastLogged(s) == s.transactions[Len(s.transactions)]

\* C17: sellAll(symbol) is equivalent to sell(symbol, the full current
\* holding): from every state both fail or both succeed, and on success
\* they leave the same cash, the same holdings map without the symbol, the
\* same appended snapshot and the same transaction shares, price, total and
\* profit_loss, the kinds being SELL ALL and SELL.
C17_SellAllIsSellOfFullHolding ==
    \A symbol \in Symbols :
        /\ (SoldAll(symbol).buy_error = NoError)
              <=> (SoldFull(symbol).buy_error = NoError)
        /\ SoldAll(symbol).buy_error = NoError =>
              /\ SoldAll(symbol).cash = SoldFull(symbol).cash
              /\ SoldAll(symbol).holdings = SoldFull(symbol).holdings
              /\ symbol \notin DOMAIN SoldAll(symbol).holdings
              /\ SoldAll(symbol).portfolio_history = SoldFull(symbol).portfolio_history
              /\ Len(SoldAll(symbol).portfolio_history) = Len(portfolio_history) + 1
              /\ Len(SoldAll(symbol).transactions) = Len(transactions) + 1
              /\ Len(SoldFull(symbol).transactions) = Len(transactions) + 1
              /\ LastLogged(SoldAll(symbol)).type = "SELL ALL"
              /\ LastLogged(SoldFull(symbol)).type = "SELL"
              /\ [LastLogged(SoldAll(symbol)) EXCEPT !.type = "SELL"]
                    = LastLogged(SoldFull(symbol))

\* a sell-all went through where the sell of the full holding would have
\* left the same cash
C17_Witness ==
    /\ Traded("sell_all")
    /\ LastLogged(Session).type = "SELL ALL"
    /\ LastLogged(Session).shares = HeldShares(Pre, last.symbol)
    /\ sell(Pre, last.symbol,
            Form(Some(HeldShares(Pre, last.symbol)), None)).cash = cash

\* C18: each successful buy, sell or sellAll and each tick of the clock
\* appends exactly one snapshot, stamped with the current_date and
\* time_of_day in force after the operation; a failed operation appends
\* none.
C18_OneSnapshotPerTick ==
    /\ ((last.op \in {"buy", "sell", "sell_all"} /\ ~Failed) \/ last.op = "next")
          => /\ Len(portfolio_history) = Len(Pre.portfolio_history) + 1
             /\ SubSeq(portfolio_history, 1, Len(Pre.portfolio_history))
                   = Pre.portfolio_history
             /\ portfolio_history[Len(portfolio_history)].date = current_date
             /\ portfolio_history[Len(portfolio_history)].time = time_of_day
    /\ Failed => portfolio_history = Pre.portfolio_history

\* a sale has appended its one snapshot
C18_Witness ==
    /\ Traded("sell")
    /\ Len(portfolio_history) = Len(Pre.portfolio_history) + 1
    /\ portfolio_history[Len(portfolio_history)].date = current_date

\* C19: the snapshot list is append-only and ordered by date: no operation
\* removes or changes a snapshot already there, and the dates of the list
\* never decrease.
C19_SnapshotsAppendOnlyAndOrdered ==
    /\ Len(Pre.portfolio_history) <= Len(portfolio_history)
    /\ SubSeq(portfolio_history, 1, Len(Pre.portfolio_history))
          = Pre.portfolio_history
    /\ \A i \in 1..(Len(portfolio_history) - 1) :
          portfolio_history[i].date <= portfolio_history[i + 1].date

\* a jump has appended several snapshots to a list that already had some
C19_Witness ==
    /\ last.op = "jump"
    /\ Len(Pre.portfolio_history) > 2
    /\ Len(portfolio_history) > Len(Pre.portfolio_history) + 2
    /\ portfolio_history[Len(Pre.portfolio_history)].date
          < portfolio_history[Len(portfolio_history)].date

\* the target of the last request, a jump to a calendar date
Target == ToOrdinal(last.target[1], last.target[2], last.target[3])

\* the last request was a jump to a real calendar date not before
\* current_date
ForwardJump ==
    /\ last.op = "jump"
    /\ ValidDate(last.target[1], last.target[2], last.target[3])
    /\ Target >= Pre.current_date

\* the date of the k-th snapshot the last request appended
AppendedDate(k) == portfolio_history[Len(Pre.portfolio_history) + k].date

\* the snapshots a forward jump appended are the monthly steps from the
\* date it started at that do not pass the target, then one at the target
MonthlyThenTarget ==
    LET n == Len(portfolio_history) - Len(Pre.portfolio_history) - 1
    IN /\ n >= 0
       /\ \A i \in Appended : portfolio_history[i].time = "open"
       /\ \A k \in 1..n :
             /\ AppendedDate(k) =
                   add_months(IF k = 1 THEN Pre.current_date ELSE AppendedDate(k - 1), 1)
             /\ AppendedDate(k) <= Target
       /\ AppendedDate(n + 1) = Target
       /\ LET cursor == IF n = 0 THEN Pre.current_date ELSE AppendedDate(n)
          IN cursor >= Target \/ add_months(cursor, 1) > Target

\* C20: a jumpToDate whose target is not before current_date ends with
\* current_date = target and time_of_day = open, having appended one
\* snapshot at each monthly step that does not pass the target and exactly
\* one more at the target; a jump of 3 months from 2000-01-03 appends 3
\* monthly snapshots and the final one; each snapshot values all held
\* positions.
C20_JumpSnapshots ==
    ForwardJump =>
        /\ ~Failed
        /\ current_date = Target
        /\ time_of_day = "open"
        /\ MonthlyThenTarget
        /\ (Pre.current_date = START_DATE /\ Target = ToOrdinal(2000, 4, 3))
              => Len(portfolio_history) = Len(Pre.portfolio_history) + 3 + 1
        /\ \A i \in Appended :
              portfolio_history[i].value =
                  AddValue([q |-> cash, r |-> 0],
                           ValueAtLastKnownPrices(holdings, DOMAIN holdings,
                                                  portfolio_history[i].date,
                                                  portfolio_history[i].time))

\* the calendar month of a date, counted from year 0
MonthIndex(n) == YearOf(n) * 12 + MonthOf(n) - 1

\* the calendar months that have a snapshot
SnapshotMonths ==
    {MonthIndex(portfolio_history[i].date) : i \in 1..Len(portfolio_history)}

\* C21: after any sequence of clock operations, every calendar month from
\* the month of the first snapshot through the month of current_date has at
\* least one snapshot.
C21_EveryMonthHasSnapshot ==
    \A m \in MonthIndex(portfolio_history[1].date)..MonthIndex(current_date) :
        m \in SnapshotMonths

\* a jump from the last day of January to the first day of May, whose
\* monthly steps are clamped to the ends of February, March and April.
C21_Witness ==
    /\ last.op = "jump"
    /\ Pre.current_date = ToOrdinal(2000, 1, 31)
    /\ current_date = ToOrdinal(2000, 5, 1)
    /\ Len(portfolio_history) = Len(Pre.portfolio_history) + 4

\* the index page has aggregated the snapshots of the session as it is
Rendered == last.op = "index"

\* the months between the first and the last monthly point: the months of
\* the earliest and the latest snapshot
SnapshotSpan ==
    LET months == SnapshotMonths
    IN (CHOOSE m \in months : \A k \in months : k <= m)
         - (CHOOSE m \in months : \A k \in months : m <= k)

\* the bucket of `width` months a calendar month falls in; a width divides
\* the twelve months of a year
Bucket(m, width) == m \div width

\* the chart has one point for every bucket of `width` months that holds a
\* snapshot, and no two points in one bucket
BucketedBy(width) ==
    /\ {Bucket(MonthIndex(monthly_history[k].date), width) :
           k \in 1..Len(monthly_history)}
         = {Bucket(m, width) : m \in SnapshotMonths}
    /\ \A k, l \in 1..Len(monthly_history) :
          Bucket(MonthIndex(monthly_history[k].date), width)
             = Bucket(MonthIndex(monthly_history[l].date), width) => k = l

SnapshotsOfMonth(m) ==
    {i \in 1..Len(portfolio_history) : MonthIndex(portfolio_history[i].date) = m}

\* of the snapshots of month m that carry the month's latest date, the one
\* written last (WrittenLast) and the one written first (WrittenFirst)
LatestOfMonth(m) ==
    {i \in SnapshotsOfMonth(m) :
        \A j \in SnapshotsOfMonth(m) :
            portfolio_history[j].date <= portfolio_history[i].date}
WrittenLast(m) == CHOOSE i \in LatestOfMonth(m) : \A j \in LatestOfMonth(m) : j <= i
WrittenFirst(m) == CHOOSE i \in LatestOfMonth(m) : \A j \in LatestOfMonth(m) : i <= j

\* the chart is the monthly reduction itself: the span keeps it monthly
MonthlyChart == Rendered /\ SnapshotSpan <= 24

\* C23: the monthly reduction keeps for each (year, month) the snapshot of
\* the latest date, and of several snapshots of that date the one written
\* last.
C23_LatestDateWrittenLast ==
    MonthlyChart =>
        \A k \in 1..Len(monthly_history) :
            LET i == WrittenLast(MonthIndex(monthly_history[k].date))
            IN /\ monthly_history[k].date = portfolio_history[i].date
               /\ monthly_history[k].value = portfolio_history[i].value

\* what the reduction does: one point for each month with a snapshot, of
\* the month's latest date, and of several snapshots of that date the one
\* written first
FirstWrittenKept ==
    MonthlyChart =>
        /\ BucketedBy(1)
        /\ \A k \in 1..Len(monthly_history) :
              LET i == WrittenFirst(MonthIndex(monthly_history[k].date))
              IN /\ monthly_history[k].date = portfolio_history[i].date
                 /\ monthly_history[k].value = portfolio_history[i].value

\* a product [q mills, r] is at most, or more than, an amount of mills
AtMost(product, amount) ==
    product.q < amount \/ (product.q = amount /\ product.r = 0)
MoreThan(product, amount) == ~AtMost(product, amount)

\* the last request was a buy by cash amount that went through
BoughtByCash == Traded("buy") /\ last.form.shares = None

\* C24: the quantity of a buy is the largest multiple of 0.0001 not above
\* the quantity asked for (0.12349 gives 0.1234; for a cash amount C, not
\* above C / price) and its cost the largest multiple of 0.01 not above
\* quantity x price, so a buy by cash amount C never debits more than C.
C24_QuantizedDownNeverOverdebits ==
    Traded("buy") =>
        LET tx == LastLogged(Session)
        IN /\ tx.shares % SHARE_STEP = 0
           /\ last.form.shares # None =>
                 /\ tx.shares <= last.form.shares[1]
                 /\ last.form.shares[1] < tx.shares + SHARE_STEP
           /\ last.form.shares = Some(12349) => tx.shares = 12340
           /\ BoughtByCash =>
                 /\ AtMost(Times(tx.shares, tx.price), last.form.cash[1])
                 /\ MoreThan(Times(tx.shares + SHARE_STEP, tx.price), last.form.cash[1])
           /\ tx.total % CASH_STEP = 0
           /\ tx.total <= Times(tx.shares, tx.price).q
           /\ Times(tx.shares, tx.price).q < tx.total + CASH_STEP
           /\ Pre.cash - cash = tx.total
           /\ BoughtByCash => Pre.cash - cash <= last.form.cash[1]

\* a buy for 100.00 at a price that does not divide it: 99.99 is debited
C24_Witness ==
    /\ BoughtByCash
    /\ last.form.cash = Some(100000)
    /\ Pre.cash - cash = 99990

\* the conditions a buy checks, on the session it found, in the order the
\* claim gives them; each is read only where the ones before it passed
NoPrice == PrePrice = None
ClosedForSymbol ==
    IsWeekend(Pre.current_date) /\ last.symbol \notin CRYPTOCURRENCIES
NoQuantity ==
    \/ last.form.shares # None /\ last.form.shares[1] < SHARE_STEP
    \/ /\ last.form.shares = None
       /\ \/ last.form.cash = None
          \/ PrePrice[1] <= 0
          \/ MoreThan(Times(SHARE_STEP, PrePrice[1]), last.form.cash[1])
NoCost == Amount <= 0
Unfunded == Pre.cash < Amount
AtMarketCap ==
    LET cap == get_market_cap(last.symbol)
    IN /\ cap # None
       /\ cap[1] > 0
       /\ Times(HeldShares(Pre, last.symbol) + Quantity[1], PrePrice[1]).q >= cap[1]

\* the error of the first of the conditions that fails, "none" when all pass
FirstFailing ==
    IF NoPrice THEN "PriceUnavailable"
    ELSE IF ClosedForSymbol THEN "MarketClosed"
    ELSE IF NoQuantity THEN "InvalidQuantity"
    ELSE IF NoCost THEN "ZeroCost"
    ELSE IF Unfunded THEN "InsufficientFunds"
    ELSE IF AtMarketCap THEN "MarketCapExceeded"
    ELSE NoError

\* C25: a buy checks its preconditions in the order PriceUnavailable,
\* MarketClosed, InvalidQuantity, truncated cost <= 0, InsufficientFunds,
\* MarketCapExceeded, and reports the first that fails.
C25_BuyChecksInOrder == last.op = "buy" => buy_error = FirstFailing

\* a buy that fails two checks: 100 shares of the equity cost more than the
\* cash at hand and are worth more than its market cap
C25_Witness ==
    /\ last.op = "buy"
    /\ ~NoPrice /\ ~ClosedForSymbol /\ ~NoQuantity /\ ~NoCost
    /\ Unfunded
    /\ AtMarketCap
    /\ buy_error = "InsufficientFunds"

\* a product [q, r] is at most another
Within(x, y) == x.q < y.q \/ (x.q = y.q /\ x.r <= y.r)

\* the holding of the symbol of the last request, before and after it
OldHolding == Pre.holdings[last.symbol]
NewHolding == holdings[last.symbol]

\* the last request was a buy that went through, of a symbol already held
BoughtMore == Traded("buy") /\ HeldShares(Pre, last.symbol) > 0

\* what the position had cost before the buy, plus the cost of the buy
CostWithBuy ==
    LET product == Times(OldHolding.shares, OldHolding.avg_cost)
    IN [q |-> product.q + LastLogged(Session).total, r |-> product.r]

\* C26: a buy of s shares at price p that goes through, with cost =
\* trunc2(s x p), sets the shares held to oldShares + s, sets avg_cost to
\* trunc2((oldShares x oldAvgCost + cost) / newShares) when the position was
\* held already and to p when it is new, and debits cash by exactly cost.
C26_BuyUpdatesHolding ==
    Traded("buy") =>
        LET tx == LastLogged(Session)
        IN /\ tx.total % CASH_STEP = 0
           /\ tx.total <= Times(tx.shares, tx.price).q
           /\ Times(tx.shares, tx.price).q < tx.total + CASH_STEP
           /\ last.symbol \in DOMAIN holdings
           /\ NewHolding.shares = HeldShares(Pre, last.symbol) + tx.shares
           /\ cash = Pre.cash - tx.total
           /\ BoughtMore =>
                 /\ NewHolding.avg_cost % CASH_STEP = 0
                 /\ Within(Times(NewHolding.shares, NewHolding.avg_cost), CostWithBuy)
                 /\ ~Within(Times(NewHolding.shares, NewHolding.avg_cost + CASH_STEP),
                            CostWithBuy)
           /\ ~BoughtMore => NewHolding.avg_cost = tx.price

\* a second buy at another price: the average lies between the two prices
C26_Witness ==
    /\ BoughtMore
    /\ OldHolding.avg_cost < NewHolding.avg_cost
    /\ NewHolding.avg_cost < LastLogged(Session).price

\* the last request was a sell that passed the checks a sell shares with a
\* buy: the symbol has a holding, its market is open, it has a price and
\* the form gives a quantity
SellChecked ==
    /\ last.op = "sell"
    /\ last.symbol \in DOMAIN Pre.holdings
    /\ ~ClosedForSymbol
    /\ ~NoPrice
    /\ ~NoQuantity

\* SellChecked, and the quantity does not exceed the shares held
SellCovered == SellChecked /\ Quantity[1] <= OldHolding.shares

\* the sell credited cash by trunc2(s x price), logged profit_loss =
\* proceeds - trunc2(s x avg_cost), and took exactly s shares off the
\* holding, keeping its avg_cost, or deleted it when no shares remain
SoldAsClaimed ==
    LET tx == LastLogged(Session)
        s == Quantity[1]
        remaining == OldHolding.shares - s
        basis == Times(s, OldHolding.avg_cost).q
    IN /\ ~Failed
       /\ Len(transactions) = Len(Pre.transactions) + 1
       /\ tx.shares = s
       /\ tx.total % CASH_STEP = 0
       /\ tx.total <= Times(s, PrePrice[1]).q
       /\ Times(s, PrePrice[1]).q < tx.total + CASH_STEP
       /\ cash = Pre.cash + tx.total
       /\ tx.profit_loss = tx.total - (basis - (basis % CASH_STEP))
       /\ remaining > 0 =>
             /\ last.symbol \in DOMAIN holdings
             /\ NewHolding.shares = remaining
             /\ NewHolding.avg_cost = OldHolding.avg_cost
       /\ remaining <= 0 => last.symbol \notin DOMAIN holdings

\* no holding has a negative number of shares
NeverNegative == \A symbol \in DOMAIN holdings : holdings[symbol].shares >= 0

\* the last request was a sell of a number of shares above the shares held
Oversell ==
    /\ last.op = "sell"
    /\ last.form.shares # None
    /\ quantize_shares(last.form.shares[1]) > HeldShares(Pre, last.symbol)

\* C27 as stated: a sell of s shares is rejected with InsufficientShares
\* when s exceeds the shares held; otherwise it credits cash by proceeds =
\* trunc2(s x price), records profit_loss = proceeds - trunc2(s x avg_cost),
\* reduces the holding by exactly s leaving avg_cost unchanged, and deletes
\* the holding when no shares remain; held shares are never negative.
C27_OversellAlwaysInsufficientShares ==
    /\ NeverNegative
    /\ Oversell => buy_error = "InsufficientShares"
    /\ SellCovered => SoldAsClaimed

\* C27, amended: the same of a sell that passed the checks before the one
\* of the shares held (the symbol has a holding, its market is open, it has
\* a price, the form gives a quantity).
C27_SellReducesHolding ==
    /\ NeverNegative
    /\ (SellChecked /\ ~SellCovered) =>
          /\ buy_error = "InsufficientShares"
          /\ Ledger(Session) = Ledger(Pre)
    /\ SellCovered => SoldAsClaimed

\* a sell of part of a holding, at a price above its average cost
C27_Witness ==
    /\ SellCovered
    /\ Quantity[1] < OldHolding.shares
    /\ LastLogged(Session).profit_loss > 0

\* the last request was a buy whose position value is defined: a price
\* resolves and the form gives a quantity
BuyPriced == last.op = "buy" /\ ~NoPrice /\ ~NoQuantity

\* BuyPriced, and the buy passed every check before the one of the cap
BuyChecked == BuyPriced /\ ~ClosedForSymbol /\ ~NoCost /\ ~Unfunded

\* after a buy of a symbol with a known positive cap that went through, the
\* position at the buy price is worth strictly less than the cap
BelowCapAfterBuy ==
    (Traded("buy") /\ get_market_cap(last.symbol) # None
                   /\ get_market_cap(last.symbol)[1] > 0) =>
        LET value == Times(NewHolding.shares, LastLogged(Session).price)
        IN value.q < get_market_cap(last.symbol)[1]

\* C28 as stated: a buy fails with MarketCapExceeded exactly when the
\* symbol's market cap is known and positive and (held shares + bought
\* shares) x price is greater than or equal to it; hence after every
\* successful buy of such a symbol the position's value at the buy price is
\* strictly below the cap.
C28_CapExceededExactlyWhenReached ==
    /\ BuyPriced => (buy_error = "MarketCapExceeded" <=> AtMarketCap)
    /\ BelowCapAfterBuy

\* C28, amended: the same of a buy that passed the checks before the one of
\* the cap (market open, cost above zero, funds sufficient).
C28_CapCheckedLast ==
    /\ BuyChecked => (buy_error = "MarketCapExceeded" <=> AtMarketCap)
    /\ last.op = "buy" /\ buy_error = "MarketCapExceeded" => BuyChecked /\ AtMarketCap
    /\ BelowCapAfterBuy

\* a buy of 60 shares at 150.00, worth exactly the cap of 9000.00
C28_Witness ==
    /\ BuyChecked
    /\ Times(HeldShares(Pre, last.symbol) + Quantity[1], PrePrice[1])
          = [q |-> get_market_cap(last.symbol)[1], r |-> 0]
    /\ buy_error = "MarketCapExceeded"

\* the session after two ticks from the session as it is
TwoTicks == next_time(next_time(Cleared(Session)))

\* C29: advanceTick moves (date, open) to (date, close) and (date, close) to
\* (date + 1 day, open); two ticks in a row advance the date by exactly one
\* day and restore the time of day; each tick appends exactly one snapshot.
C29_TickAlternatesOpenClose ==
    /\ last.op = "next" =>
          /\ Pre.time_of_day = "open" =>
                current_date = Pre.current_date /\ time_of_day = "close"
          /\ Pre.time_of_day = "close" =>
                current_date = Pre.current_date + 1 /\ time_of_day = "open"
          /\ Len(portfolio_history) = Len(Pre.portfolio_history) + 1
          /\ portfolio_history[Len(portfolio_history)].date = current_date
          /\ portfolio_history[Len(portfolio_history)].time = time_of_day
    /\ time_of_day \in {"open", "close"}
    /\ TwoTicks.current_date = current_date + 1
    /\ TwoTicks.time_of_day = time_of_day
    /\ Len(TwoTicks.portfolio_history) = Len(portfolio_history) + 2

\* a tick from the close of a day to the open of the next
C29_Witness ==
    /\ last.op = "next"
    /\ Pre.time_of_day = "close"
    /\ time_of_day = "open"
    /\ current_date = Pre.current_date + 1

\* the last request was a skipWeekend
Skipped == last.op = "skip_weekend"

\* the days from the date skipWeekend found to the Monday after it: 2 from
\* a Saturday, 1 from a Sunday
DaysToMonday == IF Weekday(Pre.current_date) = 5 THEN 2 ELSE 1

\* C30: skipWeekend changes nothing (no date change, no snapshot) when
\* current_date is Monday to Friday; from a Saturday it advances exactly 2
\* days and from a Sunday exactly 1, to the next Monday at open, and
\* appends one snapshot for each day stepped.
C30_SkipWeekendToMonday ==
    Skipped =>
        /\ Weekday(Pre.current_date) < 5 => Ledger(Session) = Ledger(Pre)
        /\ Weekday(Pre.current_date) >= 5 =>
              /\ current_date = Pre.current_date + DaysToMonday
              /\ Weekday(current_date) = 0
              /\ time_of_day = "open"
              /\ Len(portfolio_history) = Len(Pre.portfolio_history) + DaysToMonday
              /\ \A k \in 1..DaysToMonday :
                    /\ AppendedDate(k) = Pre.current_date + k
                    /\ portfolio_history[Len(Pre.portfolio_history) + k].time = "open"

\* a skip from a Sunday to the Monday after it, one day and one snapshot on
C30_Witness ==
    /\ Skipped
    /\ Weekday(Pre.current_date) = 6
    /\ Weekday(current_date) = 0
    /\ Len(portfolio_history) = Len(Pre.portfolio_history) + 1

\* session t is session s after `units` steps of a clock advance: `units`
\* snapshots more, each at open and each of a later date than the snapshot
\* before it, and the clock at open
SteppedBy(s, t, units) ==
    LET n == Len(s.portfolio_history)
    IN /\ Len(t.portfolio_history) = n + units
       /\ \A k \in 1..n : t.portfolio_history[k] = s.portfolio_history[k]
       /\ \A k \in (n + 1)..(n + units) :
             /\ t.portfolio_history[k].time = "open"
             /\ t.portfolio_history[k].date > t.portfolio_history[k - 1].date
       /\ t.time_of_day = "open"

\* C31: advanceByDays(n), advanceByMonths(n) and advanceByYears(n) step one
\* unit at a time and append a snapshot after each unit: n, n and 12n
\* snapshots, each at open and of a date strictly later than the snapshot
\* before it, and the clock ends at open.  The routes advance 7 days, 1
\* month and 1 year.
C31_OneSnapshotPerUnit ==
    /\ last.op = "jump_week" => SteppedBy(Pre, Session, 7)
    /\ last.op = "jump_month" => SteppedBy(Pre, Session, 1)
    /\ last.op = "jump_year" => SteppedBy(Pre, Session, 12)
    /\ \A n \in 1..MaxUnits :
          /\ SteppedBy(Session, jump_forward(Session, n, 0, 0), n)
          /\ SteppedBy(Session, jump_forward(Session, 0, n, 0), n)
    /\ \A n \in 1..MaxYears :
          SteppedBy(Session, jump_forward(Session, 0, 0, n), 12 * n)

\* a year's advance from the close of a day: twelve snapshots, at open
C31_Witness ==
    /\ last.op = "jump_year"
    /\ Pre.time_of_day = "close"
    /\ Len(portfolio_history) = Len(Pre.portfolio_history) + 12
    /\ time_of_day = "open"

\* the months a month or year advance adds: 1 for /jump/month, 12 for
\* /jump/year
MonthsAdvanced == IF last.op = "jump_year" THEN 12 ELSE 1

\* C36: advanceByMonths(n) and advanceByYears(n) land on the date obtained
\* by adding the whole number of calendar months to the starting date in one
\* step, the day of the month clamped only to the length of the final month;
\* advanceByYears(1) from the 31st of January ends on the 31st of January of
\* the following year.
C36_LandsOnWholeMonthsLater ==
    last.op \in {"jump_month", "jump_year"} =>
        current_date = add_months(Pre.current_date, MonthsAdvanced)

\* the day of the month stays or is clamped to the month landed in when the
\* advance starts on a day every month has
LandsOnSameDay ==
    (last.op \in {"jump_month", "jump_year"} /\ DayOf(Pre.current_date) <= 28) =>
        current_date = add_months(Pre.current_date, MonthsAdvanced)

\* the chart was re-bucketed: the span is past the monthly range
Rebucketed == Rendered /\ SnapshotSpan > 24

\* the width the span selects
SpanWidth == IF SnapshotSpan <= 24 THEN 1 ELSE IF SnapshotSpan <= 120 THEN 3 ELSE 6

\* C32: after re-bucketing with width w in {3, 6} the output has exactly
\* one point for every bucket (year, (month - 1) div w) that holds a monthly
\* point, that point being the latest-dated monthly point of the bucket, and
\* the output is in strictly ascending date order.  The monthly points are
\* the latest-dated snapshots of the months, with the value of the first
\* snapshot of that date; so the latest-dated monthly point of a bucket is
\* the first of the snapshots of the bucket's latest date.
C32_OnePointPerBucket ==
    Rebucketed =>
        LET w == SpanWidth
            n == Len(monthly_history)
            snapshots == 1..Len(portfolio_history)
            of_snapshot == Table([j \in snapshots |->
                               Bucket(MonthIndex(portfolio_history[j].date), w)])
            of_point == Table([k \in 1..n |->
                               Bucket(MonthIndex(monthly_history[k].date), w)])
        IN /\ w \in {3, 6}
           /\ \A j \in snapshots : \E k \in 1..n : of_point[k] = of_snapshot[j]
           /\ \A k \in 1..n :
                 /\ \E i \in snapshots :
                       /\ portfolio_history[i].date = monthly_history[k].date
                       /\ portfolio_history[i].value = monthly_history[k].value
                       /\ \A j \in 1..(i - 1) :
                             portfolio_history[j].date # monthly_history[k].date
                 /\ \A j \in snapshots :
                       of_snapshot[j] = of_point[k] =>
                           portfolio_history[j].date <= monthly_history[k].date
           /\ \A k \in 2..n :
                 /\ monthly_history[k - 1].date < monthly_history[k].date
                 /\ of_point[k - 1] # of_point[k]

\* a chart of half-years whose last bucket holds two months, the second kept
C32_Witness ==
    /\ Rebucketed
    /\ SpanWidth = 6
    /\ MonthOf(current_date) = 2
    /\ monthly_history[Len(monthly_history)].date = current_date
    /\ Len(transactions) > 0

\* the chart the page got, and its last point
Series == chart.monthly_history
LastPoint == Series[Len(Series)]

\* the chart is sorted ascending by date and ends on current_date, and the
\* gap-filling walk ended
ChartShape ==
    /\ chart.ended
    /\ Len(Series) > 0
    /\ \A k \in 2..Len(Series) : Series[k - 1].date <= Series[k].date
    /\ LastPoint.date = current_date

\* the walk on its own: were the current month `ahead` months past the last
\* aggregated point, the walk would end, having put a flat point of the last
\* value in each month between, before the live point
WalkEnds ==
    \A ahead \in 1..MaxUnits :
        LET late == display_history(monthly_history,
                                    add_months(current_date, ahead),
                                    portfolio_value(Session))
            n == Len(monthly_history)
        IN /\ late.ended
           /\ Len(late.monthly_history) = n + ahead
           /\ \A k \in 1..(ahead - 1) :
                 /\ late.monthly_history[n + k].value = monthly_history[n].value
                 /\ MonthIndex(late.monthly_history[n + k].date)
                       = MonthIndex(monthly_history[n].date) + k

\* C33: the series returned for charting is sorted ascending by date, its
\* last point has date = current_date and value = cash plus the current
\* value of the holdings, each holding at the last known price of its
\* symbol, and the gap-filling walk from the last bucketed month to the
\* current month terminates.
C33_ChartEndsAtLiveValue ==
    Rendered =>
        /\ ChartShape
        /\ WalkEnds
        /\ LastPoint.value =
              AddValue([q |-> cash, r |-> 0],
                       ValueAtLastKnownPrices(holdings, DOMAIN holdings,
                                              current_date, time_of_day))

\* the chart but for the valuation: sorted, ending on current_date with the
\* value the page computes, the walk ended
ChartEndsAtPageValue ==
    Rendered =>
        /\ ChartShape
        /\ WalkEnds
        /\ LastPoint.value = portfolio_value(Session)

\* the walk is never entered: the last aggregated point is of the current
\* month
NothingToFill ==
    Rendered =>
        MonthIndex(monthly_history[Len(monthly_history)].date)
            = MonthIndex(current_date)


----------------------------------------------------------------------------
(* Properties of the frame of each request *)

\* the requests that move the clock, the watch list requests and the trades
ClockRequests == {"next", "jump_week", "jump_month", "jump_year",
                  "skip_weekend", "jump"}
WatchRequests == {"pin", "unpin"}
TradeRequests == {"buy", "sell", "sell_all"}

\* the log of the session before the request is the log's beginning, and
\* the request added `count` records to it
LogGrewBy(count) ==
    /\ Len(transactions) = Len(Pre.transactions) + count
    /\ SubSeq(transactions, 1, Len(Pre.transactions)) = Pre.transactions

\* C34: clock requests and pin/unpin leave cash, the holdings map and the
\* transaction log unchanged; buy, sell and sellAll leave current_date and
\* time_of_day unchanged; the transaction log changes only by a successful
\* buy, sell or sellAll, which appends exactly one record at its end and
\* leaves the records before it as they were.
C34_RequestsKeepTheirFrame ==
    /\ last.op \in ClockRequests \cup WatchRequests
          => /\ cash = Pre.cash
             /\ holdings = Pre.holdings
             /\ transactions = Pre.transactions
    /\ last.op \in TradeRequests
          => /\ current_date = Pre.current_date
             /\ time_of_day = Pre.time_of_day
    /\ IF last.op \in TradeRequests /\ ~Failed
       THEN LogGrewBy(1)
       ELSE transactions = Pre.transactions

\* a symbol that is held and was bought in this run has just left the
\* watch list
C34_Witness ==
    /\ last.op = "unpin"
    /\ last.symbol = "xyz"
    /\ pinned_stocks # Pre.pinned_stocks
    /\ EQUITY \in DOMAIN holdings
    /\ Len(transactions) = 1


\* the most recently appended snapshot
LastSnapshot == portfolio_history[Len(portfolio_history)]

\* the last snapshot is of the clock's day, and so of its month
SnapshotOfToday ==
    /\ LastSnapshot.date = current_date
    /\ <<YearOf(LastSnapshot.date), MonthOf(LastSnapshot.date)>>
           = <<YearOf(current_date), MonthOf(current_date)>>

\* C35 (as stated): in every reachable state the most recently appended
\* snapshot carries the clock's current_date and, once any request has run,
\* the clock's time_of_day.
C35_LastSnapshotAtClockOnceOperated ==
    /\ SnapshotOfToday
    /\ last.op # "index" => LastSnapshot.time = time_of_day

\* C35 (amended): in every reachable state the most recently appended
\* snapshot carries the clock's current_date and, once a request has
\* appended a snapshot to the one the session starts with, the clock's
\* time_of_day; a request that changes the clock appends a snapshot.
C35_LastSnapshotAtClock ==
    /\ SnapshotOfToday
    /\ Len(portfolio_history) > 1 => LastSnapshot.time = time_of_day
    /\ <<current_date, time_of_day>> # <<Pre.current_date, Pre.time_of_day>>
          => Len(portfolio_history) > Len(Pre.portfolio_history)

\* a jump has moved the clock, at close, to the open of a day of a later
\* month
C35_Witness ==
    /\ last.op = "jump"
    /\ Pre.time_of_day = "close"
    /\ time_of_day = "open"
    /\ MonthOf(current_date) # MonthOf(Pre.current_date)
    /\ Len(portfolio_history) > Len(Pre.portfolio_history)

====
